---- MODULE Spec2Model ----
(***************************************************************************)
(* Model of the hst backend: the health-check scheduler                    *)
(* (backend/healthcheck.go), the load-test aggregation                     *)
(* (LoadTestExecutor.processAndSaveResults, calculatePercentile), the      *)
(* load-test engine (LoadTestExecutor.Execute) and its control plane       *)
(* (LoadTestServer.handleLoadTest).                                        *)
(***************************************************************************)
EXTENDS Integers, Sequences, FiniteSets, Bags, TLC

(***************************************************************************)
(* Bounds of the model.                                                    *)
(***************************************************************************)
MaxInterval == 3
MaxStoreOps == 2
MaxResults == 3
MaxLatency == 2
MaxLong == 101
MaxThreads == 2
MaxCalls == 2
MaxJobs == 4
\* ticks counted per entry: two full periods of the longest interval
MaxTicks == 2 * MaxInterval

(***************************************************************************)
(* Health-check definitions (type HealthCheck) and the "healthchecks"      *)
(* collection.                                                             *)
(***************************************************************************)
IDs == {"id1", "id2"}

NoDoc == [ID |-> "none"]

URLs == {"http://a", "http://b"}
Methods == {"GET", "HEAD"}
ExpectedCodes == {200, 204}
Names == {"n1", "n2"}
HeaderSets == {"h1", "h2"}
Bodies == {"", "ok"}
Statuses == {"active", "inactive"}
Intervals == 1..MaxInterval

\* the document the portal's POST inserts: always status "active"
NewDoc(id, name, interval) ==
    [ID |-> id, Name |-> name, URL |-> "http://a", Method |-> "GET",
     Interval |-> interval, StatusCode |-> 200, Headers |-> "h1",
     ExpectedBody |-> "", Status |-> "active"]

Fields == {"Name", "URL", "Method", "Interval", "StatusCode", "Headers",
           "ExpectedBody", "Status"}

FieldValues(f) ==
    CASE f = "Name" -> Names
      [] f = "URL" -> URLs
      [] f = "Method" -> Methods
      [] f = "Interval" -> Intervals
      [] f = "StatusCode" -> ExpectedCodes
      [] f = "Headers" -> HeaderSets
      [] f = "ExpectedBody" -> Bodies
      [] f = "Status" -> Statuses

SetField(doc, f, v) ==
    CASE f = "Name" -> [doc EXCEPT !.Name = v]
      [] f = "URL" -> [doc EXCEPT !.URL = v]
      [] f = "Method" -> [doc EXCEPT !.Method = v]
      [] f = "Interval" -> [doc EXCEPT !.Interval = v]
      [] f = "StatusCode" -> [doc EXCEPT !.StatusCode = v]
      [] f = "Headers" -> [doc EXCEPT !.Headers = v]
      [] f = "ExpectedBody" -> [doc EXCEPT !.ExpectedBody = v]
      [] f = "Status" -> [doc EXCEPT !.Status = v]

GetField(doc, f) ==
    CASE f = "Name" -> doc.Name
      [] f = "URL" -> doc.URL
      [] f = "Method" -> doc.Method
      [] f = "Interval" -> doc.Interval
      [] f = "StatusCode" -> doc.StatusCode
      [] f = "Headers" -> doc.Headers
      [] f = "ExpectedBody" -> doc.ExpectedBody
      [] f = "Status" -> doc.Status

VARIABLES
    healthchecks,   \* the "healthchecks" collection: ID -> document or NoDoc
    storeOps,       \* number of writes made to the collection so far
    counters,       \* HealthCheckManager.counters: ID -> HealthCheckCounter
    phase,          \* "initial": Start is in its first load; "running": after
    loadPc,         \* "idle" | "loaded" (loadHealthChecks between read and lock)
    healthChecks,   \* loadHealthChecks' local list read from the store
    dispatched,     \* definitions handed to executeHealthCheck by the last tick
    sinceLoad,      \* history: ID -> ticks handled since a reconciliation
                    \* added the entry or replaced its definition
    setBy,          \* history: ID -> "add" | "update", which of the two it was
    lastApplied,    \* history: <<>> or <<list>>, the list the last completed
                    \* reconciliation applied
    lastRemoved,    \* history: the ids the last completed reconciliation removed
    lastOp          \* history: the operation that produced this state

schedVars == <<healthchecks, storeOps, counters, phase, loadPc, healthChecks,
               dispatched, sinceLoad, setBy, lastApplied, lastRemoved, lastOp>>

VARIABLES
    results,          \* the results channel as processAndSaveResults drains it
    expected,         \* req.ExpectedStatusCode of the run
    aggPc,            \* "collect" | "insert" | "done": processAndSaveResults' position
    acc,              \* processAndSaveResults' accumulators
    drained,          \* history: the results received so far, in order
    loadtest_metrics, \* the "loadtest_metrics" collection
    summary,          \* <<>> or <<the LoadTestResult built>>
    execErr,          \* what processAndSaveResults returned
    sortedTimes,      \* calculatePercentile's argument
    percentile,       \* calculatePercentile's rank
    pctPc,            \* "start" | "done": the call's position
    pctOut            \* calculatePercentile's result

aggVars == <<results, expected, aggPc, acc, drained, loadtest_metrics, summary,
             execErr>>

pctVars == <<sortedTimes, percentile, pctPc, pctOut>>

VARIABLES
    loadtesting_metrics, \* the names held by the "loadtesting_metrics" collection
    loadtest_logs,       \* the bag of LoadTestLog records held by the
                         \* loadtest_logs_<name> collections
    clientTimeout,       \* e.client.Timeout of the one executor, in seconds
    req,                 \* run -> the LoadTestRequest Execute works on
    ctxDone,             \* run -> the run's context is cancelled
    execPc,              \* run -> "none" | "start" | "setup" | "running" |
                         \*        "insert" | "returned": Execute's position
    execRet,             \* run -> "running", or what Execute returned
    totalCalls,          \* run -> Execute's totalCalls
    jobs,                \* run -> the tokens buffered in the jobs channel
    jobsClosed,          \* run -> how many times close(jobs) was called
    prod,                \* run -> the producer goroutine: [pc, i]
    workers,             \* run -> worker -> [pc, result]; pc is "range" |
                         \*        "request" | "log" | "exit"
    resultsCh,           \* run -> the results buffered in the results channel
    runSummary,          \* run -> <<>> or <<the LoadTestResult built>>
    consumed,            \* history: run -> the tokens the workers received
    emitted,             \* history: run -> the results sent on the results channel
    usedTimeout,         \* history: run -> the client timeouts its requests ran with
    logOutcomes,         \* history: run -> InsertLog calls [tried, failed]
    inserts,             \* history: run -> the outcome of each InsertMetrics
    hPc,                 \* "idle" | "respond": handleLoadTest's position
    hReq,                \* the request handleLoadTest decoded
    spawned,             \* the number of runs spawned by handleLoadTest
    lastHttp,            \* history: the last HTTP request handled and what
                         \* the store held for its name
    lastResponse         \* history: the last response handleLoadTest sent

execVars == <<req, ctxDone, execPc, execRet, totalCalls, jobs, jobsClosed, prod,
              workers, resultsCh, runSummary, consumed, emitted, usedTimeout,
              logOutcomes, inserts>>

storeVars == <<loadtesting_metrics, loadtest_logs>>

handlerVars == <<hPc, hReq, spawned, lastHttp, lastResponse>>

ltVars == <<storeVars, clientTimeout, execVars, handlerVars>>

\* processAndSaveResults' own state, which the executor's runs leave alone
aggLocals == <<results, expected, aggPc, acc, drained, summary, execErr>>

VARIABLES
    clockPc,        \* "none" | "select" | "returned": Clock.Start's position
    stopChan,       \* "open" | "closed": c.stopChan
    stopCalls,      \* history: the number of calls of Clock.Stop
    clockFault,     \* the process panicked in Clock.Stop
    clockCtxDone,   \* the context given to Clock.Start is cancelled
    tickChan,       \* the number of ticks buffered in c.tickChan
    pulses,         \* history: the pulses Start received from its ticker
    delivered,      \* history: the pulses sent on c.tickChan
    dropped,        \* history: the pulses that took the default branch
    subPc,          \* the subscriber: "load" (before Subscribe) | "recv"
                    \* (parked at <-tickChan) | "tick" (handling a tick)
    handled         \* history: the ticks the subscriber finished handling

clockVars == <<clockPc, stopChan, stopCalls, clockFault, clockCtxDone,
               tickChan, pulses, delivered, dropped, subPc, handled>>

VARIABLES
    probePc,         \* "none" | "request" | "do" | "read" | "check" |
                     \* "returned": executeHealthCheck's position
    probeHc,         \* the HealthCheck executeHealthCheck was given
    probeResp,       \* the response client.Do returned
    healthcheck_logs,\* the bag of records held by the healthcheck_<name>
                     \* collections, each [collection, entry]
    probes,          \* history: the number of probe executions started
    saveLogCalls,    \* history: the InsertLog calls of the current probe,
                     \* each [collection, entry, inserted]
    probeSuccess,    \* executeHealthCheck's local success
    probePath        \* history: the path the current probe returned on

probeVars == <<probePc, probeHc, probeResp, healthcheck_logs, probes,
               saveLogCalls, probeSuccess, probePath>>

VARIABLES
    mu,             \* m.mu: "free", or the goroutine holding it, "tick" | "load"
    tickPc,         \* "recv" | "range": tick, outside or inside its loop
    tickTodo,       \* the ids tick's range loop has not visited yet
    lkTicks,        \* history: the number of ticks handled
    lkLoad,         \* "idle" | "read" | "remove" | "upsert": loadHealthChecks
                    \* before its read, before the lock, and in its two loops
    loadTodo,       \* the definitions the second loop has not visited yet
    lkSnapshot,     \* history: the entry table when m.mu was last locked
    inflight,       \* the definitions held by the probes that are running
    finished        \* history: the probes that returned, [hc, outcome]

lockVars == <<mu, tickPc, tickTodo, lkTicks, lkLoad, loadTodo, lkSnapshot,
              inflight, finished>>

vars == <<schedVars, aggVars, pctVars, ltVars, clockVars, probeVars, lockVars>>

(***************************************************************************)
(* Load-test runs: the executor, its requests and its runs.                *)
(***************************************************************************)
\* NewLoadTestServer: NewLoadTestExecutor(30*time.Second, db), in seconds
DefaultTimeout == 30

\* the runs of the executor that are followed: its first and its second
Runs == {1, 2}

\* the zero value of LoadTestRequest
ZeroRequest ==
    [Name |-> "", URL |-> "", Method |-> "", CallsPerThread |-> 0,
     Threads |-> 0, Timeout |-> 0, ExpectedStatusCode |-> 0]

NoWorkers == [w \in {} |-> "none"]

\* a worker at "for range jobs", holding no result
NewWorker == [pc |-> "range", result |-> [Error |-> FALSE]]

ExecIdle ==
    /\ req = [r \in Runs |-> ZeroRequest]
    /\ ctxDone = [r \in Runs |-> FALSE]
    /\ execPc = [r \in Runs |-> "none"]
    /\ execRet = [r \in Runs |-> "running"]
    /\ totalCalls = [r \in Runs |-> 0]
    /\ jobs = [r \in Runs |-> <<>>]
    /\ jobsClosed = [r \in Runs |-> 0]
    /\ prod = [r \in Runs |-> [pc |-> "none", i |-> 0]]
    /\ workers = [r \in Runs |-> NoWorkers]
    /\ resultsCh = [r \in Runs |-> <<>>]
    /\ runSummary = [r \in Runs |-> <<>>]
    /\ consumed = [r \in Runs |-> <<>>]
    /\ emitted = [r \in Runs |-> <<>>]
    /\ usedTimeout = [r \in Runs |-> {}]
    /\ logOutcomes = [r \in Runs |-> [tried |-> 0, failed |-> 0]]
    /\ inserts = [r \in Runs |-> <<>>]

HandlerIdle ==
    /\ hPc = "idle"
    /\ hReq = ZeroRequest
    /\ spawned = 0
    /\ lastHttp = [Method |-> "none"]
    /\ lastResponse = [code |-> 0]

LtIdle ==
    /\ loadtesting_metrics = {}
    /\ loadtest_logs = EmptyBag
    /\ clientTimeout = DefaultTimeout
    /\ ExecIdle
    /\ HandlerIdle

\* the state of a part of the program that a specification leaves out
SchedIdle ==
    /\ healthchecks = [id \in IDs |-> NoDoc]
    /\ storeOps = 0
    /\ counters = <<>>
    /\ phase = "initial"
    /\ loadPc = "idle"
    /\ healthChecks = {}
    /\ dispatched = {}
    /\ sinceLoad = <<>>
    /\ setBy = <<>>
    /\ lastApplied = <<>>
    /\ lastRemoved = {}
    /\ lastOp = "init"

AggIdle ==
    /\ results = <<>>
    /\ expected = 200
    /\ aggPc = "collect"
    /\ acc = [totalRequests |-> 0]
    /\ drained = <<>>
    /\ loadtest_metrics = <<>>
    /\ summary = <<>>
    /\ execErr = "none"

PctIdle ==
    /\ sortedTimes = <<>>
    /\ percentile = 50
    /\ pctPc = "start"
    /\ pctOut = 0

\* the zero value of HealthCheck, as far as a probe reads it
ZeroHealthCheck ==
    [Name |-> "", URL |-> "", StatusCode |-> 0, ExpectedBody |-> ""]

NoResponse == [StatusCode |-> 0, Body |-> "", ReadErr |-> FALSE]

ClockIdle ==
    /\ clockPc = "none"
    /\ stopChan = "open"
    /\ stopCalls = 0
    /\ clockFault = FALSE
    /\ clockCtxDone = FALSE
    /\ tickChan = 0
    /\ pulses = 0
    /\ delivered = 0
    /\ dropped = 0
    /\ subPc = "load"
    /\ handled = 0

LockIdle ==
    /\ mu = "free"
    /\ tickPc = "recv"
    /\ tickTodo = {}
    /\ lkTicks = 0
    /\ lkLoad = "idle"
    /\ loadTodo = {}
    /\ lkSnapshot = <<>>
    /\ inflight = {}
    /\ finished = {}

ProbeIdle ==
    /\ probePc = "none"
    /\ probeHc = ZeroHealthCheck
    /\ probeResp = NoResponse
    /\ healthcheck_logs = EmptyBag
    /\ probes = 0
    /\ saveLogCalls = <<>>
    /\ probeSuccess = FALSE
    /\ probePath = "none"

(***************************************************************************)
(* MongoHelper.FindActiveDocuments: the documents with status "active".    *)
(***************************************************************************)
\* mutant: the status filter is dropped
FindAllDocuments(coll) ==
    {coll[id] : id \in {i \in DOMAIN coll : coll[i] # NoDoc}}

FindActiveDocuments(coll) ==
    {coll[id] : id \in {i \in DOMAIN coll : coll[i] # NoDoc /\ coll[i].Status = "active"}}

(***************************************************************************)
(* loadHealthChecks, lines 107-118: the comparison that decides an update. *)
(***************************************************************************)
\* mutant: every reconciliation treats the entry as changed
ConfigChangedAlways(old, hc) == TRUE

\* mutant: the method is left out of the comparison
ConfigChangedNoMethod(old, hc) ==
    \/ old.URL # hc.URL
    \/ old.Interval # hc.Interval
    \/ old.StatusCode # hc.StatusCode

\* mutant: the headers are part of the comparison
ConfigChangedOnHeaders(old, hc) ==
    \/ old.URL # hc.URL
    \/ old.Interval # hc.Interval
    \/ old.Method # hc.Method
    \/ old.StatusCode # hc.StatusCode
    \/ old.Headers # hc.Headers

ConfigChanged(old, hc) ==
    \/ old.URL # hc.URL
    \/ old.Interval # hc.Interval
    \/ old.Method # hc.Method
    \/ old.StatusCode # hc.StatusCode

NewCounter(hc) == [HealthCheck |-> hc, Counter |-> hc.Interval]

\* mutant: entries whose id is no longer active are kept
ReconciledNoRemoval(table, hcs) ==
    LET activeIDs == {hc.ID : hc \in hcs}
    IN  [id \in DOMAIN table \cup activeIDs |->
            IF id \in activeIDs
            THEN LET hc == CHOOSE h \in hcs : h.ID = id
                 IN  IF id \in DOMAIN table
                     THEN IF ConfigChanged(table[id].HealthCheck, hc)
                          THEN NewCounter(hc)
                          ELSE table[id]
                     ELSE NewCounter(hc)
            ELSE table[id]]

\* the entry table after loadHealthChecks applied the list hcs under the lock
Reconciled(table, hcs) ==
    LET activeIDs == {hc.ID : hc \in hcs}
        kept == {id \in DOMAIN table : id \in activeIDs}
    IN  [id \in activeIDs |->
            LET hc == CHOOSE h \in hcs : h.ID = id
            IN  IF id \in kept
                THEN IF ConfigChanged(table[id].HealthCheck, hc)
                     THEN NewCounter(hc)
                     ELSE table[id]
                ELSE NewCounter(hc)]

(***************************************************************************)
(* tick, lines 147-155: one entry's step.                                  *)
(***************************************************************************)
\* mutant: the probe is due one tick late
DueLate(entry) == entry.Counter - 1 < 0

Due(entry) == entry.Counter - 1 <= 0

\* mutant: the counter is not reset when the probe is dispatched
TickEntryNoReset(entry) == [entry EXCEPT !.Counter = entry.Counter - 1]

TickEntry(entry) ==
    IF Due(entry)
    THEN [entry EXCEPT !.Counter = entry.HealthCheck.Interval]
    ELSE [entry EXCEPT !.Counter = entry.Counter - 1]

(***************************************************************************)
(* Writes to the "healthchecks" collection by the portal.                  *)
(***************************************************************************)
\* the portal refuses a name that a stored definition already has
NameTaken(name, except) ==
    \E other \in IDs \ {except} :
        healthchecks[other] # NoDoc /\ healthchecks[other].Name = name

PortalInsert ==
    \E id \in IDs, name \in Names, i \in Intervals :
        /\ storeOps < MaxStoreOps
        /\ healthchecks[id] = NoDoc
        /\ ~NameTaken(name, id)
        /\ healthchecks' = [healthchecks EXCEPT ![id] = NewDoc(id, name, i)]
        /\ storeOps' = storeOps + 1
        /\ lastOp' = "store"
        /\ UNCHANGED <<counters, phase, loadPc, healthChecks, dispatched,
                       sinceLoad, setBy, lastApplied, lastRemoved>>
        /\ UNCHANGED <<aggVars, pctVars, ltVars, clockVars, probeVars, lockVars>>

PortalUpdate ==
    \E id \in IDs, f \in Fields :
        \E v \in FieldValues(f) :
            /\ storeOps < MaxStoreOps
            /\ healthchecks[id] # NoDoc
            /\ GetField(healthchecks[id], f) # v
            /\ f = "Name" => ~NameTaken(v, id)
            /\ healthchecks' = [healthchecks EXCEPT ![id] = SetField(@, f, v)]
            /\ storeOps' = storeOps + 1
            /\ lastOp' = "store"
            /\ UNCHANGED <<counters, phase, loadPc, healthChecks, dispatched,
                           sinceLoad, setBy, lastApplied, lastRemoved>>
            /\ UNCHANGED <<aggVars, pctVars, ltVars, clockVars, probeVars, lockVars>>

PortalDelete ==
    \E id \in IDs :
        /\ storeOps < MaxStoreOps
        /\ healthchecks[id] # NoDoc
        /\ healthchecks' = [healthchecks EXCEPT ![id] = NoDoc]
        /\ storeOps' = storeOps + 1
        /\ lastOp' = "store"
        /\ UNCHANGED <<counters, phase, loadPc, healthChecks, dispatched,
                       sinceLoad, setBy, lastApplied, lastRemoved>>
        /\ UNCHANGED <<aggVars, pctVars, ltVars, clockVars, probeVars, lockVars>>

(***************************************************************************)
(* loadHealthChecks: the store read (line 83), its failure (lines 84-87)   *)
(* and the reconciliation under the lock (lines 89-126).                   *)
(***************************************************************************)
LoadRead ==
    /\ loadPc = "idle"
    /\ healthChecks' = FindActiveDocuments(healthchecks)
    /\ loadPc' = "loaded"
    /\ lastOp' = "read"
    /\ UNCHANGED <<healthchecks, storeOps, counters, phase, dispatched,
                   sinceLoad, setBy, lastApplied, lastRemoved>>
    /\ UNCHANGED <<aggVars, pctVars, ltVars, clockVars, probeVars, lockVars>>

\* mutant: a failed read empties the entry table
LoadFailClears ==
    /\ loadPc = "idle"
    /\ phase' = "running"
    /\ lastOp' = "readErr"
    /\ counters' = <<>>
    /\ sinceLoad' = <<>>
    /\ setBy' = <<>>
    /\ UNCHANGED <<healthchecks, storeOps, loadPc, healthChecks,
                   dispatched, lastApplied, lastRemoved>>
    /\ UNCHANGED <<aggVars, pctVars, ltVars, clockVars, probeVars, lockVars>>

LoadFail ==
    /\ loadPc = "idle"
    /\ phase' = "running"
    /\ lastOp' = "readErr"
    /\ UNCHANGED <<healthchecks, storeOps, counters, loadPc, healthChecks,
                   dispatched, sinceLoad, setBy, lastApplied, lastRemoved>>
    /\ UNCHANGED <<aggVars, pctVars, ltVars, clockVars, probeVars, lockVars>>

\* what a reconciliation step did to an id, read off the entry table
Added(id) == id \notin DOMAIN counters /\ id \in DOMAIN counters'

Replaced(id) ==
    /\ id \in DOMAIN counters
    /\ id \in DOMAIN counters'
    /\ counters'[id].HealthCheck # counters[id].HealthCheck

LoadApply ==
    /\ loadPc = "loaded"
    /\ counters' = Reconciled(counters, healthChecks)
    /\ sinceLoad' = [id \in DOMAIN counters' |->
                        IF Added(id) \/ Replaced(id) THEN 0 ELSE sinceLoad[id]]
    /\ setBy' = [id \in DOMAIN counters' |->
                        IF Added(id) THEN "add"
                        ELSE IF Replaced(id) THEN "update" ELSE setBy[id]]
    /\ lastApplied' = <<healthChecks>>
    /\ lastRemoved' = DOMAIN counters \ DOMAIN counters'
    /\ lastOp' = IF lastApplied = <<healthChecks>> THEN "reapply" ELSE "apply"
    /\ loadPc' = "idle"
    /\ phase' = "running"
    /\ healthChecks' = {}
    /\ UNCHANGED <<healthchecks, storeOps, dispatched>>
    /\ UNCHANGED <<aggVars, pctVars, ltVars, clockVars, probeVars, lockVars>>

(***************************************************************************)
(* tick: handled by Start's loop once the initial load has returned.       *)
(***************************************************************************)
\* mutant: ticks are handled from the moment Start is called
SubscribedAtOnce == TRUE

\* Start, lines 65-71: the loop that receives ticks is entered after
\* loadHealthChecks has returned
Subscribed == phase = "running"

Tick ==
    /\ Subscribed
    /\ \A id \in DOMAIN counters : sinceLoad[id] < MaxTicks
    /\ counters' = [id \in DOMAIN counters |-> TickEntry(counters[id])]
    /\ dispatched' = {counters[id].HealthCheck : id \in {i \in DOMAIN counters : Due(counters[i])}}
    /\ sinceLoad' = [id \in DOMAIN counters |-> sinceLoad[id] + 1]
    /\ lastOp' = "tick"
    /\ UNCHANGED <<healthchecks, storeOps, phase, loadPc, healthChecks, setBy,
                   lastApplied, lastRemoved>>
    /\ UNCHANGED <<aggVars, pctVars, ltVars, clockVars, probeVars, lockVars>>

Init ==
    /\ LockIdle
    /\ ClockIdle
    /\ ProbeIdle
    /\ SchedIdle
    /\ AggIdle
    /\ PctIdle
    /\ LtIdle

Next ==
    \/ PortalInsert
    \/ PortalUpdate
    \/ PortalDelete
    \/ LoadRead
    \/ LoadFail
    \/ LoadApply
    \/ Tick

Spec == Init /\ [][Next]_vars

(***************************************************************************)
(* Load-test aggregation: RequestResult, processAndSaveResults and         *)
(* calculatePercentile.                                                    *)
(***************************************************************************)
HttpCodes == {200, 500}

Latencies == 0..MaxLatency

\* the ranks processAndSaveResults asks for, lines 520-522
Ranks == {50, 95, 99}

\* stands for float64(^uint64(0) >> 1), the initial minTime: above every
\* latency (TLC's integers are 32 bits wide)
MinTimeInit == 2147483647

\* RequestResult as executeRequest returns it; ResponseTime is the value
\* ResponseTime.Milliseconds() yields, in whole milliseconds
Response(code, ms) ==
    [StatusCode |-> code, ResponseTime |-> ms, BytesReceived |-> 2, Error |-> FALSE]

TransportError(ms) ==
    [StatusCode |-> 0, ResponseTime |-> ms, BytesReceived |-> 0, Error |-> TRUE]

RequestResults ==
    {Response(c, ms) : c \in HttpCodes, ms \in Latencies}
        \cup {TransportError(ms) : ms \in Latencies}

\* the runs explored: every short run, and long runs of answered requests
\* whose latencies arrive in descending order n, n-1, ..., 1 ms
ShortRuns == UNION {[1..n -> RequestResults] : n \in 0..MaxResults}

LongRun(n) == [i \in 1..n |-> Response(200, n - i + 1)]

LongRuns == {LongRun(n) : n \in (MaxResults + 1)..MaxLong}

EmptyMap == [k \in {} |-> 0]

\* statusCodes[code]++ on a Go map
Incr(m, k) ==
    [x \in DOMAIN m \cup {k} |->
        IF x = k THEN (IF k \in DOMAIN m THEN m[k] ELSE 0) + 1 ELSE m[x]]

\* processAndSaveResults, lines 469-480: the accumulators
Accumulators ==
    [totalRequests |-> 0, successfulRequests |-> 0, failedRequests |-> 0,
     totalTime |-> 0, totalBytes |-> 0, responseTimes |-> <<>>,
     statusCodes |-> EmptyMap, errorCount |-> 0,
     minTime |-> MinTimeInit, maxTime |-> 0]

\* mutant: a transport error is counted in errorCount only
AccumulateErrorNotFailed(a, r, exp) ==
    LET ms == r.ResponseTime
        a1 == [a EXCEPT !.totalRequests = @ + 1,
                        !.responseTimes = Append(@, ms),
                        !.totalTime = @ + ms,
                        !.totalBytes = @ + r.BytesReceived,
                        !.minTime = IF ms < @ THEN ms ELSE @,
                        !.maxTime = IF ms > @ THEN ms ELSE @]
    IN  IF r.Error
        THEN [a1 EXCEPT !.errorCount = @ + 1]
        ELSE LET a2 == IF r.StatusCode = exp
                       THEN [a1 EXCEPT !.successfulRequests = @ + 1]
                       ELSE [a1 EXCEPT !.failedRequests = @ + 1]
             IN  [a2 EXCEPT !.statusCodes = Incr(@, r.StatusCode)]

\* mutant: the histogram is updated for every result, errored or not
AccumulateCountsAllCodes(a, r, exp) ==
    LET ms == r.ResponseTime
        a1 == [a EXCEPT !.totalRequests = @ + 1,
                        !.responseTimes = Append(@, ms),
                        !.totalTime = @ + ms,
                        !.totalBytes = @ + r.BytesReceived,
                        !.minTime = IF ms < @ THEN ms ELSE @,
                        !.maxTime = IF ms > @ THEN ms ELSE @,
                        !.statusCodes = Incr(@, r.StatusCode)]
    IN  IF r.Error
        THEN [a1 EXCEPT !.failedRequests = @ + 1, !.errorCount = @ + 1]
        ELSE IF r.StatusCode = exp
             THEN [a1 EXCEPT !.successfulRequests = @ + 1]
             ELSE [a1 EXCEPT !.failedRequests = @ + 1]

\* processAndSaveResults, lines 482-507: one iteration of the loop
Accumulate(a, r, exp) ==
    LET ms == r.ResponseTime
        a1 == [a EXCEPT !.totalRequests = @ + 1,
                        !.responseTimes = Append(@, ms),
                        !.totalTime = @ + ms,
                        !.totalBytes = @ + r.BytesReceived,
                        !.minTime = IF ms < @ THEN ms ELSE @,
                        !.maxTime = IF ms > @ THEN ms ELSE @]
    IN  IF r.Error
        THEN [a1 EXCEPT !.failedRequests = @ + 1, !.errorCount = @ + 1]
        ELSE LET a2 == IF r.StatusCode = exp
                       THEN [a1 EXCEPT !.successfulRequests = @ + 1]
                       ELSE [a1 EXCEPT !.failedRequests = @ + 1]
             IN  [a2 EXCEPT !.statusCodes = Incr(@, r.StatusCode)]

\* mutant: the samples are left in arrival order
Unsorted(times) == times

\* sort.Float64s, line 518
SortFloat64s(times) == SortSeq(times, LAMBDA x, y : x < y)

\* mutant: the rank is rounded to the nearest index instead of truncated
calculatePercentileRounded(times, p) ==
    IF Len(times) = 0
    THEN 0
    ELSE LET index == (Len(times) * p + 50) \div 100
             clamped == IF index >= Len(times) THEN Len(times) - 1 ELSE index
         IN  times[clamped + 1]

\* calculatePercentile, lines 573-584; int(float64(len) * p / 100.0) truncates
\* a non-negative quotient, which the integer division gives exactly
calculatePercentile(times, p) ==
    IF Len(times) = 0
    THEN 0
    ELSE LET index == (Len(times) * p) \div 100
             clamped == IF index >= Len(times) THEN Len(times) - 1 ELSE index
         IN  times[clamped + 1]

\* processAndSaveResults, lines 513-558: the LoadTestResult document. The
\* quotients are kept as numerator and denominator; the figures that divide
\* by the wall-clock duration are left out.
Summarize(a, exp) ==
    LET sorted == SortFloat64s(a.responseTimes)
    IN  [totalRequests |-> a.totalRequests,
         successfulRequests |-> a.successfulRequests,
         failedRequests |-> a.failedRequests,
         errorCount |-> a.errorCount,
         statusCodes |-> a.statusCodes,
         averageTime |-> [num |-> a.totalTime, den |-> a.totalRequests],
         successRate |-> [num |-> a.successfulRequests * 100, den |-> a.totalRequests],
         minTime |-> IF a.minTime = MinTimeInit THEN 0 ELSE a.minTime,
         maxTime |-> a.maxTime,
         medianTime |-> calculatePercentile(sorted, 50),
         p95Time |-> calculatePercentile(sorted, 95),
         p99Time |-> calculatePercentile(sorted, 99),
         totalBytesReceived |-> a.totalBytes,
         expectedStatusCode |-> exp]

\* lines 482-507: one iteration of "for result := range results"
Receive ==
    /\ aggPc = "collect"
    /\ results # <<>>
    /\ acc' = Accumulate(acc, Head(results), expected)
    /\ results' = Tail(results)
    /\ drained' = Append(drained, Head(results))
    /\ UNCHANGED <<expected, aggPc, loadtest_metrics, summary, execErr>>
    /\ UNCHANGED <<schedVars, pctVars, ltVars, clockVars, probeVars, lockVars>>

\* lines 509-558: the channel is closed and empty; return early on an empty
\* run, else build the summary
Finish ==
    /\ aggPc = "collect"
    /\ results = <<>>
    /\ IF acc.totalRequests = 0
       THEN /\ execErr' = "no requests were executed"
            /\ aggPc' = "done"
            /\ UNCHANGED summary
       ELSE /\ summary' = <<Summarize(acc, expected)>>
            /\ aggPc' = "insert"
            /\ UNCHANGED execErr
    /\ UNCHANGED <<results, expected, acc, drained, loadtest_metrics>>
    /\ UNCHANGED <<schedVars, pctVars, ltVars, clockVars, probeVars, lockVars>>

\* lines 560-570: InsertMetrics, which may fail
InsertMetrics ==
    /\ aggPc = "insert"
    /\ \E ok \in BOOLEAN :
        IF ok
        THEN /\ loadtest_metrics' = Append(loadtest_metrics, summary[1])
             /\ execErr' = "nil"
        ELSE /\ execErr' = "error saving metrics"
             /\ UNCHANGED loadtest_metrics
    /\ aggPc' = "done"
    /\ UNCHANGED <<results, expected, acc, drained, summary>>
    /\ UNCHANGED <<schedVars, pctVars, ltVars, clockVars, probeVars, lockVars>>

AggInit ==
    /\ LockIdle
    /\ ClockIdle
    /\ ProbeIdle
    /\ SchedIdle
    /\ PctIdle
    /\ LtIdle
    /\ results \in ShortRuns \cup LongRuns
    /\ expected \in HttpCodes
    /\ aggPc = "collect"
    /\ acc = Accumulators
    /\ drained = <<>>
    /\ summary = <<>>
    /\ loadtest_metrics = <<>>
    /\ execErr = "none"

AggNext ==
    \/ Receive
    \/ Finish
    \/ InsertMetrics

AggSpec == AggInit /\ [][AggNext]_vars

\* ascending lists: every short one, and 1, 2, ..., n ms for the long ones
IsSorted(times) == \A i, j \in 1..Len(times) : i <= j => times[i] <= times[j]

SortedInputs ==
    {s \in UNION {[1..n -> Latencies] : n \in 0..MaxResults} : IsSorted(s)}
        \cup {[i \in 1..n |-> i] : n \in (MaxResults + 1)..MaxLong}

CallPercentile ==
    /\ pctPc = "start"
    /\ pctOut' = calculatePercentile(sortedTimes, percentile)
    /\ pctPc' = "done"
    /\ UNCHANGED <<sortedTimes, percentile>>
    /\ UNCHANGED <<schedVars, aggVars, ltVars, clockVars, probeVars, lockVars>>

PctInit ==
    /\ LockIdle
    /\ ClockIdle
    /\ ProbeIdle
    /\ SchedIdle
    /\ AggIdle
    /\ LtIdle
    /\ sortedTimes \in SortedInputs
    /\ percentile \in Ranks
    /\ pctPc = "start"
    /\ pctOut = 0

PctNext == CallPercentile

PctSpec == PctInit /\ [][PctNext]_vars

(***************************************************************************)
(* The load-test engine: LoadTestExecutor.Execute, its producer and its    *)
(* workers, one action per step of each goroutine.                         *)
(***************************************************************************)
\* what a request of a run can come back with
RunResults == {Response(200, 1), Response(500, 2), TransportError(0)}

\* executeRequest under the run's context: with the context cancelled
\* client.Do returns the context's error
Outcomes(r) == IF ctxDone[r] THEN {TransportError(0)} ELSE RunResults

\* a store call under the run's context: TRUE when it succeeds; with the
\* context cancelled the driver returns the context's error
StoreOutcomes(r) == IF ctxDone[r] THEN {FALSE} ELSE BOOLEAN

\* mutant: the name is never found
LoadTestNameExistsNever(testName) == FALSE

\* MongoHelper.LoadTestNameExists: count > 0 in "loadtesting_metrics"
LoadTestNameExists(testName) == testName \in loadtesting_metrics

\* Execute, lines 347-352: the defaults
WithDefaults(q) ==
    [q EXCEPT !.Method = IF @ = "" THEN "GET" ELSE @,
              !.ExpectedStatusCode = IF @ = 0 THEN 200 ELSE @]

\* Execute, lines 353-355: e.client.Timeout after the assignment
ClientTimeoutAfter(q, current) ==
    IF q.Timeout > 0 THEN q.Timeout ELSE current

\* "return err" in Execute
Return(r, err) ==
    /\ execPc' = [execPc EXCEPT ![r] = "returned"]
    /\ execRet' = [execRet EXCEPT ![r] = err]

otherParts == <<schedVars, pctVars, aggLocals, clockVars, probeVars, lockVars>>

\* Execute, lines 329-339: the name checks
ExecuteNameCheck(r) ==
    /\ execPc[r] = "start"
    /\ IF req[r].Name = ""
       THEN Return(r, "name is required")
       ELSE \E ok \in StoreOutcomes(r) :
                IF ~ok
                THEN Return(r, "error checking test name")
                ELSE IF LoadTestNameExists(req[r].Name)
                     THEN Return(r, "already exists")
                     ELSE /\ execPc' = [execPc EXCEPT ![r] = "setup"]
                          /\ UNCHANGED execRet
    /\ UNCHANGED <<req, ctxDone, totalCalls, jobs, jobsClosed, prod, workers,
                   resultsCh, runSummary, consumed, emitted, usedTimeout, logOutcomes,
                   inserts>>
    /\ UNCHANGED <<storeVars, clientTimeout, handlerVars, loadtest_metrics>>
    /\ UNCHANGED otherParts

\* Execute, lines 341-393: the remaining checks, the defaults, the client's
\* timeout, the two channels, the workers and the producer
\* mutant: one worker per call
SpawnPerCall(q) ==
    [w \in 1..(q.Threads * q.CallsPerThread) |-> NewWorker]

\* Execute, lines 369-380: the loop that starts req.Threads workers
SpawnWorkers(q) == [w \in 1..q.Threads |-> NewWorker]

ExecuteSetup(r) ==
    /\ execPc[r] = "setup"
    /\ IF req[r].CallsPerThread <= 0
       THEN /\ Return(r, "callsPerThread must be greater than 0")
            /\ UNCHANGED <<req, clientTimeout, totalCalls, prod, workers>>
       ELSE IF req[r].Threads <= 0
            THEN /\ Return(r, "threads must be greater than 0")
                 /\ UNCHANGED <<req, clientTimeout, totalCalls, prod, workers>>
            ELSE /\ req' = [req EXCEPT ![r] = WithDefaults(@)]
                 /\ clientTimeout' = ClientTimeoutAfter(req[r], clientTimeout)
                 /\ totalCalls' = [totalCalls EXCEPT
                                     ![r] = req[r].CallsPerThread * req[r].Threads]
                 /\ workers' = [workers EXCEPT ![r] = SpawnWorkers(req[r])]
                 /\ prod' = [prod EXCEPT ![r] = [pc |-> "loop", i |-> 0]]
                 /\ execPc' = [execPc EXCEPT ![r] = "running"]
                 /\ UNCHANGED execRet
    /\ UNCHANGED <<ctxDone, jobs, jobsClosed, resultsCh, runSummary, consumed,
                   emitted, usedTimeout, logOutcomes, inserts>>
    /\ UNCHANGED <<storeVars, handlerVars, loadtest_metrics>>
    /\ UNCHANGED otherParts

\* mutant: the producer puts every token on the channel twice
EnqueueTwice(q, i) == Append(Append(q, i), i)

\* jobs <- i
Enqueue(q, i) == Append(q, i)

\* the producer, lines 384-390: the select takes "jobs <- i"; the channel
\* holds totalCalls tokens, so the send is always ready
ProducerSend(r) ==
    /\ prod[r].pc = "loop"
    /\ prod[r].i < totalCalls[r]
    /\ Len(jobs[r]) < totalCalls[r]
    /\ jobs' = [jobs EXCEPT ![r] = Enqueue(@, prod[r].i)]
    /\ prod' = [prod EXCEPT ![r].i = @ + 1]
    /\ UNCHANGED <<req, ctxDone, execPc, execRet, totalCalls, jobsClosed,
                   workers, resultsCh, runSummary, consumed, emitted, usedTimeout,
                   logOutcomes, inserts>>
    /\ UNCHANGED <<storeVars, clientTimeout, handlerVars, loadtest_metrics>>
    /\ UNCHANGED otherParts

\* mutant: on cancellation the producer returns without closing the channel
ProducerCancelledNoClose(r) ==
    /\ prod[r].pc = "loop"
    /\ prod[r].i < totalCalls[r]
    /\ ctxDone[r]
    /\ prod' = [prod EXCEPT ![r].pc = "done"]
    /\ UNCHANGED <<req, ctxDone, execPc, execRet, totalCalls, jobs, jobsClosed,
                   workers, resultsCh, runSummary, consumed, emitted,
                   usedTimeout, logOutcomes, inserts>>
    /\ UNCHANGED <<storeVars, clientTimeout, handlerVars, loadtest_metrics>>
    /\ UNCHANGED otherParts

\* mutant: on cancellation the producer closes the channel and goes on
\* with its loop
ProducerCancelledStays(r) ==
    /\ prod[r].pc = "loop"
    /\ prod[r].i < totalCalls[r]
    /\ ctxDone[r]
    /\ jobsClosed[r] = 0
    /\ jobsClosed' = [jobsClosed EXCEPT ![r] = @ + 1]
    /\ UNCHANGED <<req, ctxDone, execPc, execRet, totalCalls, jobs, prod,
                   workers, resultsCh, runSummary, consumed, emitted,
                   usedTimeout, logOutcomes, inserts>>
    /\ UNCHANGED <<storeVars, clientTimeout, handlerVars, loadtest_metrics>>
    /\ UNCHANGED otherParts

\* the producer, lines 386-388: the select takes "<-ctx.Done()"
ProducerCancelled(r) ==
    /\ prod[r].pc = "loop"
    /\ prod[r].i < totalCalls[r]
    /\ ctxDone[r]
    /\ jobsClosed' = [jobsClosed EXCEPT ![r] = @ + 1]
    /\ prod' = [prod EXCEPT ![r].pc = "done"]
    /\ UNCHANGED <<req, ctxDone, execPc, execRet, totalCalls, jobs, workers,
                   resultsCh, runSummary, consumed, emitted, usedTimeout, logOutcomes,
                   inserts>>
    /\ UNCHANGED <<storeVars, clientTimeout, handlerVars, loadtest_metrics>>
    /\ UNCHANGED otherParts

\* mutant: after its loop the producer returns without closing the channel
ProducerEndsNoClose(r) ==
    /\ prod[r].pc = "loop"
    /\ prod[r].i >= totalCalls[r]
    /\ prod' = [prod EXCEPT ![r].pc = "done"]
    /\ UNCHANGED <<req, ctxDone, execPc, execRet, totalCalls, jobs, jobsClosed,
                   workers, resultsCh, runSummary, consumed, emitted,
                   usedTimeout, logOutcomes, inserts>>
    /\ UNCHANGED <<storeVars, clientTimeout, handlerVars, loadtest_metrics>>
    /\ UNCHANGED otherParts

\* the producer, line 392: close(jobs) after the loop
ProducerClose(r) ==
    /\ prod[r].pc = "loop"
    /\ prod[r].i >= totalCalls[r]
    /\ jobsClosed' = [jobsClosed EXCEPT ![r] = @ + 1]
    /\ prod' = [prod EXCEPT ![r].pc = "done"]
    /\ UNCHANGED <<req, ctxDone, execPc, execRet, totalCalls, jobs, workers,
                   resultsCh, runSummary, consumed, emitted, usedTimeout, logOutcomes,
                   inserts>>
    /\ UNCHANGED <<storeVars, clientTimeout, handlerVars, loadtest_metrics>>
    /\ UNCHANGED otherParts

\* a worker, line 374: "for range jobs" receives a token
WorkerTake(r, w) ==
    /\ execPc[r] = "running"
    /\ w \in DOMAIN workers[r]
    /\ workers[r][w].pc = "range"
    /\ jobs[r] # <<>>
    /\ jobs' = [jobs EXCEPT ![r] = Tail(@)]
    /\ consumed' = [consumed EXCEPT ![r] = Append(@, Head(jobs[r]))]
    /\ workers' = [workers EXCEPT ![r][w].pc = "request"]
    /\ UNCHANGED <<req, ctxDone, execPc, execRet, totalCalls, jobsClosed, prod,
                   resultsCh, runSummary, emitted, usedTimeout, logOutcomes,
                   inserts>>
    /\ UNCHANGED <<storeVars, clientTimeout, handlerVars, loadtest_metrics>>
    /\ UNCHANGED otherParts

\* a worker, lines 374 and 373: the channel is closed and empty, the loop
\* ends and wg.Done runs
WorkerExit(r, w) ==
    /\ execPc[r] = "running"
    /\ w \in DOMAIN workers[r]
    /\ workers[r][w].pc = "range"
    /\ jobs[r] = <<>>
    /\ jobsClosed[r] > 0
    /\ workers' = [workers EXCEPT ![r][w].pc = "exit"]
    /\ UNCHANGED <<req, ctxDone, execPc, execRet, totalCalls, jobs, jobsClosed,
                   prod, resultsCh, runSummary, consumed, emitted, usedTimeout,
                   logOutcomes, inserts>>
    /\ UNCHANGED <<storeVars, clientTimeout, handlerVars, loadtest_metrics>>
    /\ UNCHANGED otherParts

\* a worker, lines 375-376: executeRequest with the client's timeout of the
\* moment, then "results <- result", ready while the buffer has room
\* mutant: the results channel has no buffer
ResultsUnbuffered(r) == 0

\* Execute, line 364: results is make(chan RequestResult, totalCalls)
ResultsCap(r) == totalCalls[r]

\* mutant: after the send the worker goes straight to its next receive
WorkerSkipsLog(result) == NewWorker

\* a worker, lines 376-377: after "results <- result" comes saveLog, of
\* the same result
WorkerAfterEmit(result) == [pc |-> "log", result |-> result]

executeRequest(r, w) ==
    /\ w \in DOMAIN workers[r]
    /\ workers[r][w].pc = "request"
    /\ Len(resultsCh[r]) < ResultsCap(r)
    /\ \E result \in Outcomes(r) :
        /\ resultsCh' = [resultsCh EXCEPT ![r] = Append(@, result)]
        /\ emitted' = [emitted EXCEPT ![r] = Append(@, result)]
        /\ workers' = [workers EXCEPT ![r][w] = WorkerAfterEmit(result)]
    /\ usedTimeout' = [usedTimeout EXCEPT ![r] = @ \cup {clientTimeout}]
    /\ UNCHANGED <<req, ctxDone, execPc, execRet, totalCalls, jobs, jobsClosed,
                   prod, runSummary, consumed, logOutcomes, inserts>>
    /\ UNCHANGED <<storeVars, clientTimeout, handlerVars, loadtest_metrics>>
    /\ UNCHANGED otherParts

\* mutant: success is the absence of a transport error
LogEntryAnyStatus(q, result) ==
    [Name |-> q.Name,
     StatusCode |-> result.StatusCode,
     ResponseTime |-> result.ResponseTime,
     Success |-> ~result.Error,
     Error |-> result.Error]

\* saveLog, lines 444-459: the LoadTestLog record
LogEntry(q, result) ==
    [Name |-> q.Name,
     StatusCode |-> result.StatusCode,
     ResponseTime |-> result.ResponseTime,
     Success |-> (~result.Error /\ result.StatusCode = q.ExpectedStatusCode),
     Error |-> result.Error]

\* mutant: a worker whose log write failed leaves its loop
WorkerStopsOnLogError(ok) ==
    IF ok THEN NewWorker ELSE [pc |-> "exit", result |-> [Error |-> FALSE]]

\* saveLog, lines 463-465, and the worker's loop, line 374: whatever InsertLog
\* returned, the worker goes on to its next receive
WorkerAfterLog(ok) == NewWorker

\* a worker, line 377: saveLog; InsertLog may fail and the error is dropped
saveLog(r, w) ==
    /\ w \in DOMAIN workers[r]
    /\ workers[r][w].pc = "log"
    /\ \E ok \in StoreOutcomes(r) :
        /\ loadtest_logs' =
              IF ok
              THEN loadtest_logs (+) SetToBag({LogEntry(req[r], workers[r][w].result)})
              ELSE loadtest_logs
        /\ logOutcomes' = [logOutcomes EXCEPT
                              ![r].tried = @ + 1,
                              ![r].failed = IF ok THEN @ ELSE @ + 1]
        /\ workers' = [workers EXCEPT ![r][w] = WorkerAfterLog(ok)]
    /\ UNCHANGED <<req, ctxDone, execPc, execRet, totalCalls, jobs, jobsClosed,
                   prod, resultsCh, runSummary, consumed, emitted, usedTimeout, inserts>>
    /\ UNCHANGED <<loadtesting_metrics, clientTimeout, handlerVars,
                   loadtest_metrics>>
    /\ UNCHANGED otherParts

\* processAndSaveResults, lines 482-507: the loop over the closed channel
RECURSIVE AccumulateAll(_, _, _)
AccumulateAll(a, rs, exp) ==
    IF rs = <<>> THEN a ELSE AccumulateAll(Accumulate(a, Head(rs), exp), Tail(rs), exp)

\* processAndSaveResults, lines 528-558: the LoadTestResult document
LoadTestResult(q, total, a) ==
    [name |-> q.Name,
     testConfig |-> [callsPerThread |-> q.CallsPerThread,
                     threads |-> q.Threads,
                     totalCalls |-> total,
                     timeout |-> q.Timeout,
                     expectedStatusCode |-> q.ExpectedStatusCode],
     result |-> Summarize(a, q.ExpectedStatusCode)]

\* Execute, lines 395-400, and processAndSaveResults, lines 468-558:
\* wg.Wait returns, the results channel is closed and drained, and the
\* summary is built unless nothing was received
\* mutant: Execute does not wait for its workers
WorkersDoneAtOnce(r) == TRUE

\* Execute, line 395: wg.Wait returns when every worker has run wg.Done
WorkersDone(r) == \A w \in DOMAIN workers[r] : workers[r][w].pc = "exit"

WaitAndProcess(r) ==
    /\ execPc[r] = "running"
    /\ WorkersDone(r)
    /\ LET a == AccumulateAll(Accumulators, resultsCh[r], req[r].ExpectedStatusCode)
       IN  IF a.totalRequests = 0
           THEN /\ Return(r, "no requests were executed")
                /\ UNCHANGED runSummary
           ELSE /\ runSummary' = [runSummary EXCEPT
                                    ![r] = <<LoadTestResult(req[r], totalCalls[r], a)>>]
                /\ execPc' = [execPc EXCEPT ![r] = "insert"]
                /\ UNCHANGED execRet
    /\ resultsCh' = [resultsCh EXCEPT ![r] = <<>>]
    /\ UNCHANGED <<req, ctxDone, totalCalls, jobs, jobsClosed, prod, workers,
                   consumed, emitted, usedTimeout, logOutcomes, inserts>>
    /\ UNCHANGED <<storeVars, clientTimeout, handlerVars, loadtest_metrics>>
    /\ UNCHANGED otherParts

\* mutant: the insert runs under a context of its own
MetricsOutcomesDetached(r) == BOOLEAN

\* processAndSaveResults, line 562: InsertMetrics gets the run's context
MetricsOutcomes(r) == StoreOutcomes(r)

\* mutant: the error of InsertMetrics is dropped
SaveMetricsErrorDropped(ok) == "nil"

\* processAndSaveResults, lines 562-570: what it returns after InsertMetrics
SaveMetricsResult(ok) == IF ok THEN "nil" ELSE "error saving metrics"

\* processAndSaveResults, lines 560-570: InsertMetrics into
\* "loadtest_metrics", which may fail
SaveMetrics(r) ==
    /\ execPc[r] = "insert"
    /\ \E ok \in MetricsOutcomes(r) :
        /\ inserts' = [inserts EXCEPT ![r] = Append(@, ok)]
        /\ loadtest_metrics' =
              IF ok THEN Append(loadtest_metrics, runSummary[r][1])
                    ELSE loadtest_metrics
        /\ Return(r, SaveMetricsResult(ok))
    /\ UNCHANGED <<req, ctxDone, totalCalls, jobs, jobsClosed, prod, workers,
                   resultsCh, runSummary, consumed, emitted, usedTimeout, logOutcomes>>
    /\ UNCHANGED <<storeVars, clientTimeout, handlerVars>>
    /\ UNCHANGED otherParts

\* the caller of Execute cancels the context it passed
Cancel(r) ==
    /\ execPc[r] \notin {"none", "returned"}
    /\ ~ctxDone[r]
    /\ ctxDone' = [ctxDone EXCEPT ![r] = TRUE]
    /\ UNCHANGED <<req, execPc, execRet, totalCalls, jobs, jobsClosed, prod,
                   workers, resultsCh, runSummary, consumed, emitted, usedTimeout,
                   logOutcomes, inserts>>
    /\ UNCHANGED <<storeVars, clientTimeout, handlerVars, loadtest_metrics>>
    /\ UNCHANGED otherParts

\* the requests Execute is called with directly
TestNames == {"t1"}

TimeoutChoices == {0, 5}

ExecRequests ==
    {q \in [Name : TestNames \cup {""}, URL : {"http://target"}, Method : {""},
            CallsPerThread : 0..MaxCalls, Threads : 0..MaxThreads,
            Timeout : {0}, ExpectedStatusCode : {0}] :
        q.CallsPerThread * q.Threads <= MaxJobs}

\* one call of Execute with a context its caller may cancel; the store may
\* hold a "loadtesting_metrics" document of the name
ExecInit ==
    /\ LockIdle
    /\ ClockIdle
    /\ ProbeIdle
    /\ SchedIdle
    /\ AggIdle
    /\ PctIdle
    /\ HandlerIdle
    /\ loadtesting_metrics \in SUBSET TestNames
    /\ loadtest_logs = EmptyBag
    /\ clientTimeout = DefaultTimeout
    /\ \E q \in ExecRequests :
        req = [r \in Runs |-> IF r = 1 THEN q ELSE ZeroRequest]
    /\ ctxDone = [r \in Runs |-> FALSE]
    /\ execPc = [r \in Runs |-> IF r = 1 THEN "start" ELSE "none"]
    /\ execRet = [r \in Runs |-> "running"]
    /\ totalCalls = [r \in Runs |-> 0]
    /\ jobs = [r \in Runs |-> <<>>]
    /\ jobsClosed = [r \in Runs |-> 0]
    /\ prod = [r \in Runs |-> [pc |-> "none", i |-> 0]]
    /\ workers = [r \in Runs |-> NoWorkers]
    /\ resultsCh = [r \in Runs |-> <<>>]
    /\ runSummary = [r \in Runs |-> <<>>]
    /\ consumed = [r \in Runs |-> <<>>]
    /\ emitted = [r \in Runs |-> <<>>]
    /\ usedTimeout = [r \in Runs |-> {}]
    /\ logOutcomes = [r \in Runs |-> [tried |-> 0, failed |-> 0]]
    /\ inserts = [r \in Runs |-> <<>>]

ExecNext ==
    \/ ExecuteNameCheck(1)
    \/ ExecuteSetup(1)
    \/ ProducerSend(1)
    \/ ProducerCancelled(1)
    \/ ProducerClose(1)
    \/ \E w \in 1..MaxThreads : WorkerTake(1, w)
    \/ \E w \in 1..MaxThreads : WorkerExit(1, w)
    \/ \E w \in 1..MaxThreads : executeRequest(1, w)
    \/ \E w \in 1..MaxThreads : saveLog(1, w)
    \/ WaitAndProcess(1)
    \/ SaveMetrics(1)
    \/ Cancel(1)

ExecSpec == ExecInit /\ [][ExecNext]_vars

\* the steps of the producer goroutine and of one worker goroutine
ProducerStep(r) == ProducerSend(r) \/ ProducerCancelled(r) \/ ProducerClose(r)

WorkerStep(r, w) ==
    WorkerTake(r, w) \/ WorkerExit(r, w) \/ executeRequest(r, w) \/ saveLog(r, w)

\* every goroutine that can run does run, and every HTTP call and store
\* call it makes returns; nothing obliges the caller to cancel
ExecFairness ==
    /\ WF_vars(ExecuteNameCheck(1))
    /\ WF_vars(ExecuteSetup(1))
    /\ WF_vars(ProducerStep(1))
    /\ \A w \in 1..MaxThreads : WF_vars(WorkerStep(1, w))
    /\ WF_vars(WaitAndProcess(1))
    /\ WF_vars(SaveMetrics(1))

ExecFairSpec == ExecSpec /\ ExecFairness

(***************************************************************************)
(* The control plane: LoadTestServer.handleLoadTest on POST /loadtest.     *)
(***************************************************************************)
\* the bodies that decode into a LoadTestRequest
ServerRequests ==
    [Name : TestNames \cup {""}, URL : {"http://target", ""}, Method : {""},
     CallsPerThread : {1}, Threads : {0, 1},
     Timeout : TimeoutChoices, ExpectedStatusCode : {0}]

\* an HTTP request: its method, whether its body decodes, and what it
\* decodes into (the zero request when it does not); the timeout and the
\* threads are varied on the requests that can be accepted
HttpRequests ==
    {h \in [Method : {"POST", "GET"}, Decodes : BOOLEAN,
            Body : ServerRequests \cup {ZeroRequest}] :
        /\ h.Decodes <=> h.Body # ZeroRequest
        /\ (h.Method # "POST" \/ h.Body.Name = "" \/ h.Body.URL = "")
                => (h.Body.Timeout = 0 /\ h.Body.Threads = 1)}

\* the outcomes of the store call in LoadTestNameExists, when the handler
\* gets to it
NameCheckOutcomes(h) ==
    IF h.Method = "POST" /\ h.Decodes /\ h.Body.Name # "" /\ h.Body.URL # ""
    THEN BOOLEAN
    ELSE {TRUE}

\* mutant: the name is looked up before the required fields are checked
OutcomeNameFirst(h, storeOk, exists) ==
    IF h.Method # "POST" THEN 405
    ELSE IF ~h.Decodes THEN 400
    ELSE IF ~storeOk THEN 500
    ELSE IF exists THEN 409
    ELSE IF h.Body.Name = "" THEN 400
    ELSE IF h.Body.URL = "" THEN 400
    ELSE 200

\* handleLoadTest, lines 623-653: the status the handler answers with;
\* storeOk and exists are what LoadTestNameExists returns if it is reached
Outcome(h, storeOk, exists) ==
    IF h.Method # "POST" THEN 405
    ELSE IF ~h.Decodes THEN 400
    ELSE IF h.Body.Name = "" THEN 400
    ELSE IF h.Body.URL = "" THEN 400
    ELSE IF ~storeOk THEN 500
    ELSE IF exists THEN 409
    ELSE 200

\* handleLoadTest, lines 622-661: up to the error response, or up to the
\* "go" statement that starts Execute under context.Background(); requests
\* are followed until the last of Runs is started
handleLoadTest ==
    /\ hPc = "idle"
    /\ spawned + 1 \in Runs
    /\ \E h \in HttpRequests : \E storeOk \in NameCheckOutcomes(h) :
        LET exists == LoadTestNameExists(h.Body.Name)
            code == Outcome(h, storeOk, exists)
        IN  /\ lastHttp' = [Method |-> h.Method, Decodes |-> h.Decodes,
                            Body |-> h.Body, storeOk |-> storeOk,
                            exists |-> exists]
            /\ IF code = 200
               THEN /\ spawned' = spawned + 1
                    /\ req' = [req EXCEPT ![spawned + 1] = h.Body]
                    /\ execPc' = [execPc EXCEPT ![spawned + 1] = "start"]
                    /\ hReq' = h.Body
                    /\ hPc' = "respond"
                    /\ lastResponse' = [code |-> 0]
               ELSE /\ lastResponse' = [code |-> code]
                    /\ UNCHANGED <<spawned, req, execPc, hReq, hPc>>
    /\ UNCHANGED <<ctxDone, execRet, totalCalls, jobs, jobsClosed, prod, workers,
                   resultsCh, runSummary, consumed, emitted, usedTimeout,
                   logOutcomes, inserts>>
    /\ UNCHANGED <<storeVars, clientTimeout, loadtest_metrics>>
    /\ UNCHANGED otherParts

\* mutant: Execute is called in the handler, which answers once it returned
RespondAfterRun ==
    /\ hPc = "respond"
    /\ execPc[spawned] = "returned"
    /\ lastResponse' =
            [code |-> 200, status |-> "started", name |-> hReq.Name,
             config |-> [threads |-> hReq.Threads,
                         callsPerThread |-> hReq.CallsPerThread,
                         totalCalls |-> hReq.CallsPerThread * hReq.Threads],
             run |-> spawned]
    /\ hPc' = "idle"
    /\ hReq' = ZeroRequest
    /\ UNCHANGED <<spawned, lastHttp>>
    /\ UNCHANGED <<storeVars, clientTimeout, execVars, loadtest_metrics>>
    /\ UNCHANGED otherParts

\* handleLoadTest, lines 663-680: the 200 response
Respond ==
    /\ hPc = "respond"
    /\ lastResponse' =
            [code |-> 200, status |-> "started", name |-> hReq.Name,
             config |-> [threads |-> hReq.Threads,
                         callsPerThread |-> hReq.CallsPerThread,
                         totalCalls |-> hReq.CallsPerThread * hReq.Threads],
             run |-> spawned]
    /\ hPc' = "idle"
    /\ hReq' = ZeroRequest
    /\ UNCHANGED <<spawned, lastHttp>>
    /\ UNCHANGED <<storeVars, clientTimeout, execVars, loadtest_metrics>>
    /\ UNCHANGED otherParts

\* the server as main starts it: no run yet, the executor's client at its
\* default; the store may hold a "loadtesting_metrics" document of the name
ServerInit ==
    /\ LockIdle
    /\ ClockIdle
    /\ ProbeIdle
    /\ SchedIdle
    /\ AggIdle
    /\ PctIdle
    /\ HandlerIdle
    /\ ExecIdle
    /\ loadtesting_metrics \in SUBSET TestNames
    /\ loadtest_logs = EmptyBag
    /\ clientTimeout = DefaultTimeout

\* the runs' contexts are context.Background(): nothing cancels them
ServerNext ==
    \/ handleLoadTest
    \/ Respond
    \/ \E r \in Runs : ExecuteNameCheck(r)
    \/ \E r \in Runs : ExecuteSetup(r)
    \/ \E r \in Runs : ProducerSend(r)
    \/ \E r \in Runs : ProducerClose(r)
    \/ \E r \in Runs, w \in 1..MaxThreads : WorkerTake(r, w)
    \/ \E r \in Runs, w \in 1..MaxThreads : WorkerExit(r, w)
    \/ \E r \in Runs, w \in 1..MaxThreads : executeRequest(r, w)
    \/ \E r \in Runs, w \in 1..MaxThreads : saveLog(r, w)
    \/ \E r \in Runs : WaitAndProcess(r)
    \/ \E r \in Runs : SaveMetrics(r)

ServerSpec == ServerInit /\ [][ServerNext]_vars

(***************************************************************************)
(* The Tick Source: NewClock, Clock.Start, Clock.Stop and Clock.Subscribe, *)
(* with the one subscriber main gives it, HealthCheckManager.Start.        *)
(***************************************************************************)
MaxPulses == 3
MaxStops == 2

\* NewClock: tickChan is make(chan struct{}), a channel without a buffer
TickChanCap == 0

\* mutant: the send waits in the channel when nobody receives
TrySendQueues(buffered, parked) ==
    IF parked THEN "handoff" ELSE "buffer"

\* Start's inner select: the send on tickChan goes ahead only if it can do
\* so at once, to a receiver parked at the channel or into a free slot of
\* its buffer; otherwise the default branch runs
TrySend(buffered, parked) ==
    IF parked THEN "handoff"
    ELSE IF buffered < TickChanCap THEN "buffer"
    ELSE "default"

\* close(ch): closing a closed channel panics
Close(ch) ==
    [ch |-> "closed", panic |-> ch = "closed"]

\* go clock.Start(ctx): the ticker is made and the loop entered
ClockStart ==
    /\ ~clockFault
    /\ clockPc = "none"
    /\ clockPc' = "select"
    /\ UNCHANGED <<stopChan, stopCalls, clockFault, clockCtxDone, tickChan,
                   pulses, delivered, dropped, subPc, handled>>
    /\ UNCHANGED <<schedVars, aggVars, pctVars, ltVars, probeVars, lockVars>>

\* case <-c.ticker.C: one pulse, offered to the subscriber
Pulse ==
    /\ ~clockFault
    /\ clockPc = "select"
    /\ pulses < MaxPulses
    /\ pulses' = pulses + 1
    /\ LET how == TrySend(tickChan, subPc = "recv") IN
        /\ delivered' = IF how = "default" THEN delivered ELSE delivered + 1
        /\ dropped' = IF how = "default" THEN dropped + 1 ELSE dropped
        /\ tickChan' = IF how = "buffer" THEN tickChan + 1 ELSE tickChan
        /\ subPc' = IF how = "handoff" THEN "tick" ELSE subPc
    /\ UNCHANGED <<clockPc, stopChan, stopCalls, clockFault, clockCtxDone,
                   handled>>
    /\ UNCHANGED <<schedVars, aggVars, pctVars, ltVars, probeVars, lockVars>>

\* case <-ctx.Done(): return
ClockCtxDone ==
    /\ ~clockFault
    /\ clockPc = "select"
    /\ clockCtxDone
    /\ clockPc' = "returned"
    /\ UNCHANGED <<stopChan, stopCalls, clockFault, clockCtxDone, tickChan,
                   pulses, delivered, dropped, subPc, handled>>
    /\ UNCHANGED <<schedVars, aggVars, pctVars, ltVars, probeVars, lockVars>>

\* mutant: Start does not watch the stop channel
ClockStoppedIgnored ==
    /\ ~clockFault
    /\ clockPc = "select"
    /\ stopChan = "closed"
    /\ UNCHANGED vars

\* case <-c.stopChan: return
ClockStopped ==
    /\ ~clockFault
    /\ clockPc = "select"
    /\ stopChan = "closed"
    /\ clockPc' = "returned"
    /\ UNCHANGED <<stopChan, stopCalls, clockFault, clockCtxDone, tickChan,
                   pulses, delivered, dropped, subPc, handled>>
    /\ UNCHANGED <<schedVars, aggVars, pctVars, ltVars, probeVars, lockVars>>

\* Clock.Stop, called by any goroutine holding the clock
Stop ==
    /\ ~clockFault
    /\ stopCalls < MaxStops
    /\ stopCalls' = stopCalls + 1
    /\ stopChan' = Close(stopChan).ch
    /\ clockFault' = Close(stopChan).panic
    /\ UNCHANGED <<clockPc, clockCtxDone, tickChan, pulses, delivered,
                   dropped, subPc, handled>>
    /\ UNCHANGED <<schedVars, aggVars, pctVars, ltVars, probeVars, lockVars>>

\* the caller of Start cancels its context
ClockCancel ==
    /\ ~clockFault
    /\ ~clockCtxDone
    /\ clockCtxDone' = TRUE
    /\ UNCHANGED <<clockPc, stopChan, stopCalls, clockFault, tickChan, pulses,
                   delivered, dropped, subPc, handled>>
    /\ UNCHANGED <<schedVars, aggVars, pctVars, ltVars, probeVars, lockVars>>

\* HealthCheckManager.Start: the first load is over, Subscribe is called
\* and the loop parks at its select
Subscribe ==
    /\ ~clockFault
    /\ subPc = "load"
    /\ subPc' = "recv"
    /\ UNCHANGED <<clockPc, stopChan, stopCalls, clockFault, clockCtxDone,
                   tickChan, pulses, delivered, dropped, handled>>
    /\ UNCHANGED <<schedVars, aggVars, pctVars, ltVars, probeVars, lockVars>>

\* HealthCheckManager.Start: m.tick(ctx) returns and the loop parks again
TickHandled ==
    /\ ~clockFault
    /\ subPc = "tick"
    /\ subPc' = "recv"
    /\ handled' = handled + 1
    /\ UNCHANGED <<clockPc, stopChan, stopCalls, clockFault, clockCtxDone,
                   tickChan, pulses, delivered, dropped>>
    /\ UNCHANGED <<schedVars, aggVars, pctVars, ltVars, probeVars, lockVars>>

\* HealthCheckManager.Start: case <-ctx.Done(): return
SubscriberCtxDone ==
    /\ ~clockFault
    /\ subPc = "recv"
    /\ clockCtxDone
    /\ subPc' = "returned"
    /\ UNCHANGED <<clockPc, stopChan, stopCalls, clockFault, clockCtxDone,
                   tickChan, pulses, delivered, dropped, handled>>
    /\ UNCHANGED <<schedVars, aggVars, pctVars, ltVars, probeVars, lockVars>>

\* main: NewClock has returned, nothing is started yet
ClockInit ==
    /\ LockIdle
    /\ SchedIdle
    /\ AggIdle
    /\ PctIdle
    /\ LtIdle
    /\ ProbeIdle
    /\ ClockIdle

ClockNext ==
    \/ ClockStart
    \/ Pulse
    \/ ClockCtxDone
    \/ ClockStopped
    \/ Stop
    \/ ClockCancel
    \/ Subscribe
    \/ TickHandled
    \/ SubscriberCtxDone

ClockSpec == ClockInit /\ [][ClockNext]_vars

\* the goroutine of Start is scheduled, and its select, which chooses among
\* its ready cases at random, does not pass over a case that stays ready
ClockFairness ==
    /\ WF_vars(ClockStart)
    /\ WF_vars(ClockCtxDone)
    /\ WF_vars(ClockStopped)

ClockFairSpec == ClockSpec /\ ClockFairness

(***************************************************************************)
(* A probe: executeHealthCheck and saveLog of HealthCheckManager, started  *)
(* by tick for a definition that is due.                                   *)
(***************************************************************************)
MaxProbes == 2

\* the definitions a probe is given: the fields executeHealthCheck and
\* saveLog read; "://" is a URL http.NewRequestWithContext rejects
ProbeDefs ==
    [Name : Names, URL : {"http://a", "://"}, StatusCode : ExpectedCodes,
     ExpectedBody : Bodies]

\* what client.Do can return as a response, and whether reading its body
\* fails
Responses ==
    [StatusCode : {200, 500}, Body : {"ok", " ok\n", "ko"}, ReadErr : BOOLEAN]

\* strings.TrimSpace, on the bodies above
TrimSpace(str) ==
    IF str = " ok\n" THEN "ok" ELSE str

\* http.NewRequestWithContext fails on a URL it cannot parse
NewRequestFails(hc) == hc.URL = "://"

\* fmt.Sprintf("healthcheck_%s", hc.Name)
CollectionName(hc) == <<"healthcheck_", hc.Name>>

\* mutant: an error leaves success to the comparison of the status codes
HealthCheckLogErrIgnored(hc, statusCode, err) ==
    [StatusCode |-> statusCode,
     Success |-> statusCode = hc.StatusCode,
     Error |-> err]

\* saveLog, lines 207-219: the HealthCheckLog built from the observed status
\* code and the error (<<>> is nil)
HealthCheckLog(hc, statusCode, err) ==
    [StatusCode |-> statusCode,
     Success |-> IF err # <<>> THEN FALSE ELSE statusCode = hc.StatusCode,
     Error |-> err]

\* mutant: the insert is not attempted
InsertLogSkipped(calls, coll, entry, ok) == calls

\* MongoHelper.InsertLog, as the calls made of it: one more call, of the
\* collection and the entry, which the store accepted or not
InsertLog(calls, coll, entry, ok) ==
    Append(calls, [collection |-> coll, entry |-> entry, inserted |-> ok])

\* saveLog(ctx, hc, statusCode, start, err): one InsertLog into
\* healthcheck_<name>, whose error is logged only
probeSaveLog(hc, statusCode, err) ==
    \E ok \in BOOLEAN :
        LET entry == HealthCheckLog(hc, statusCode, err) IN
        /\ saveLogCalls' = InsertLog(saveLogCalls, CollectionName(hc), entry, ok)
        /\ healthcheck_logs' =
             IF ok
             THEN healthcheck_logs (+)
                    SetToBag({[collection |-> CollectionName(hc),
                               entry |-> entry]})
             ELSE healthcheck_logs

\* tick, line 151: go m.executeHealthCheck(ctx, counter.HealthCheck)
Dispatch ==
    /\ probePc \in {"none", "returned"}
    /\ probes < MaxProbes
    /\ probes' = probes + 1
    /\ probeHc' \in ProbeDefs
    /\ probePc' = "request"
    /\ probeResp' = NoResponse
    /\ saveLogCalls' = <<>>
    /\ probeSuccess' = FALSE
    /\ probePath' = "none"
    /\ UNCHANGED healthcheck_logs
    /\ UNCHANGED <<schedVars, aggVars, pctVars, ltVars, clockVars, lockVars>>

\* executeHealthCheck, lines 161-169: the request is built
NewRequest ==
    /\ probePc = "request"
    /\ IF NewRequestFails(probeHc)
       THEN /\ probeSaveLog(probeHc, 0, <<"request">>)
            /\ probePc' = "returned"
            /\ probePath' = "request"
       ELSE /\ probePc' = "do"
            /\ UNCHANGED <<healthcheck_logs, saveLogCalls, probePath>>
    /\ UNCHANGED <<probeHc, probeResp, probes, probeSuccess>>
    /\ UNCHANGED <<schedVars, aggVars, pctVars, ltVars, clockVars, lockVars>>

\* executeHealthCheck, lines 171-176: m.client.Do(req) fails or answers
ClientDo ==
    /\ probePc = "do"
    /\ \/ /\ probeSaveLog(probeHc, 0, <<"transport">>)
          /\ probePc' = "returned"
          /\ probePath' = "transport"
          /\ UNCHANGED probeResp
       \/ /\ probeResp' \in Responses
          /\ probePc' = "read"
          /\ UNCHANGED <<healthcheck_logs, saveLogCalls, probePath>>
    /\ UNCHANGED <<probeHc, probes, probeSuccess>>
    /\ UNCHANGED <<schedVars, aggVars, pctVars, ltVars, clockVars, lockVars>>

\* executeHealthCheck, lines 178-182: io.ReadAll(resp.Body)
ReadAll ==
    /\ probePc = "read"
    /\ IF probeResp.ReadErr
       THEN /\ probeSaveLog(probeHc, probeResp.StatusCode, <<"read">>)
            /\ probePc' = "returned"
            /\ probePath' = "read"
       ELSE /\ probePc' = "check"
            /\ UNCHANGED <<healthcheck_logs, saveLogCalls, probePath>>
    /\ UNCHANGED <<probeHc, probeResp, probes, probeSuccess>>
    /\ UNCHANGED <<schedVars, aggVars, pctVars, ltVars, clockVars, lockVars>>

\* executeHealthCheck, lines 184-192: the local success
BodyMatches(hc, body) ==
    hc.ExpectedBody = "" \/ TrimSpace(hc.ExpectedBody) = TrimSpace(body)

\* executeHealthCheck, lines 184-201: the comparison, the log record and
\* the message printed
CheckAndSave ==
    /\ probePc = "check"
    /\ probeSuccess' = (/\ probeResp.StatusCode = probeHc.StatusCode
                        /\ BodyMatches(probeHc, probeResp.Body))
    /\ probeSaveLog(probeHc, probeResp.StatusCode, <<>>)
    /\ probePc' = "returned"
    /\ probePath' = "response"
    /\ UNCHANGED <<probeHc, probeResp, probes>>
    /\ UNCHANGED <<schedVars, aggVars, pctVars, ltVars, clockVars, lockVars>>

ProbeInit ==
    /\ LockIdle
    /\ SchedIdle
    /\ AggIdle
    /\ PctIdle
    /\ LtIdle
    /\ ClockIdle
    /\ ProbeIdle

ProbeNext ==
    \/ Dispatch
    \/ NewRequest
    \/ ClientDo
    \/ ReadAll
    \/ CheckAndSave

ProbeSpec == ProbeInit /\ [][ProbeNext]_vars

(***************************************************************************)
(* The entry table under m.mu: tick and loadHealthChecks step by step,     *)
(* with the probes tick starts.                                            *)
(***************************************************************************)
MaxLockTicks == 2

\* mutant: Lock returns whether or not the mutex is held
LockFreeAlways == TRUE

\* m.mu.Lock() returns when nobody holds the mutex
LockFree == mu = "free"

\* what a probe can end in
ProbeOutcomes == {"success", "failure", "transport error", "log write failed"}

\* the portal changes the store: it deactivates id1, or changes the URL or
\* the headers of id2
LockStoreWrite ==
    /\ storeOps < MaxStoreOps
    /\ storeOps' = storeOps + 1
    /\ \E w \in {<<"id1", "Status", "inactive">>, <<"id2", "URL", "http://b">>,
                 <<"id2", "Headers", "h2">>} :
        /\ GetField(healthchecks[w[1]], w[2]) # w[3]
        /\ healthchecks' =
             [healthchecks EXCEPT ![w[1]] = SetField(@, w[2], w[3])]
    /\ UNCHANGED <<counters, phase, loadPc, healthChecks, dispatched,
                   sinceLoad, setBy, lastApplied, lastRemoved, lastOp>>
    /\ UNCHANGED lockVars
    /\ UNCHANGED <<aggVars, pctVars, ltVars, clockVars, probeVars>>

\* tick, lines 144-147: a tick is received and the lock taken
TickLock ==
    /\ Subscribed
    /\ tickPc = "recv"
    /\ lkTicks < MaxLockTicks
    /\ LockFree
    /\ mu' = "tick"
    /\ tickPc' = "range"
    /\ tickTodo' = DOMAIN counters
    /\ lkSnapshot' = counters
    /\ UNCHANGED <<lkTicks, lkLoad, loadTodo, inflight, finished>>
    /\ UNCHANGED schedVars
    /\ UNCHANGED <<aggVars, pctVars, ltVars, clockVars, probeVars>>

\* tick, lines 147-155: one entry of the range loop, in the order the map
\* gives; a due entry starts a probe on a copy of its definition
TickVisit ==
    /\ tickPc = "range"
    /\ \E id \in tickTodo :
        /\ counters' = [counters EXCEPT ![id] = TickEntry(@)]
        /\ inflight' = IF Due(counters[id])
                       THEN inflight \cup {counters[id].HealthCheck}
                       ELSE inflight
        /\ tickTodo' = tickTodo \ {id}
    /\ UNCHANGED <<mu, tickPc, lkTicks, lkLoad, loadTodo, lkSnapshot, finished>>
    /\ UNCHANGED <<healthchecks, storeOps, phase, loadPc, healthChecks,
                   dispatched, sinceLoad, setBy, lastApplied, lastRemoved,
                   lastOp>>
    /\ UNCHANGED <<aggVars, pctVars, ltVars, clockVars, probeVars>>

\* tick, line 145: the deferred Unlock
TickUnlock ==
    /\ tickPc = "range"
    /\ tickTodo = {}
    /\ mu' = "free"
    /\ tickPc' = "recv"
    /\ lkTicks' = lkTicks + 1
    /\ UNCHANGED <<tickTodo, lkLoad, loadTodo, lkSnapshot, inflight, finished>>
    /\ UNCHANGED schedVars
    /\ UNCHANGED <<aggVars, pctVars, ltVars, clockVars, probeVars>>

\* loadHealthChecks, lines 82-87: the read of the store, outside the lock;
\* a failed read ends the call
LockLoadRead ==
    /\ lkLoad = "idle"
    /\ \/ /\ healthChecks' = FindActiveDocuments(healthchecks)
          /\ lkLoad' = "read"
          /\ UNCHANGED phase
       \/ /\ phase' = "running"
          /\ UNCHANGED <<healthChecks, lkLoad>>
    /\ UNCHANGED <<mu, tickPc, tickTodo, lkTicks, loadTodo, lkSnapshot,
                   inflight, finished>>
    /\ UNCHANGED <<healthchecks, storeOps, counters, loadPc,
                   dispatched, sinceLoad, setBy, lastApplied, lastRemoved,
                   lastOp>>
    /\ UNCHANGED <<aggVars, pctVars, ltVars, clockVars, probeVars>>

\* loadHealthChecks, lines 89-96: the lock is taken
LockLoadLock ==
    /\ lkLoad = "read"
    /\ LockFree
    /\ mu' = "load"
    /\ lkLoad' = "remove"
    /\ lkSnapshot' = counters
    /\ UNCHANGED <<tickPc, tickTodo, lkTicks, loadTodo, inflight, finished>>
    /\ UNCHANGED schedVars
    /\ UNCHANGED <<aggVars, pctVars, ltVars, clockVars, probeVars>>

\* loadHealthChecks, lines 99-104: the entries that are not in the list go
LockLoadRemove ==
    /\ lkLoad = "remove"
    /\ LET activeIDs == {hc.ID : hc \in healthChecks}
       IN  counters' = [id \in DOMAIN counters \cap activeIDs |-> counters[id]]
    /\ loadTodo' = healthChecks
    /\ lkLoad' = "upsert"
    /\ UNCHANGED <<mu, tickPc, tickTodo, lkTicks, lkSnapshot, inflight, finished>>
    /\ UNCHANGED <<healthchecks, storeOps, phase, loadPc, healthChecks,
                   dispatched, sinceLoad, setBy, lastApplied, lastRemoved,
                   lastOp>>
    /\ UNCHANGED <<aggVars, pctVars, ltVars, clockVars, probeVars>>

\* loadHealthChecks, lines 107-126: one definition of the list is added, or
\* replaces an entry whose configuration changed
LockLoadUpsert ==
    /\ lkLoad = "upsert"
    /\ \E hc \in loadTodo :
        /\ counters' =
             IF hc.ID \in DOMAIN counters
             THEN IF ConfigChanged(counters[hc.ID].HealthCheck, hc)
                  THEN [counters EXCEPT ![hc.ID] = NewCounter(hc)]
                  ELSE counters
             ELSE [id \in DOMAIN counters \cup {hc.ID} |->
                      IF id = hc.ID THEN NewCounter(hc) ELSE counters[id]]
        /\ loadTodo' = loadTodo \ {hc}
    /\ UNCHANGED <<mu, tickPc, tickTodo, lkTicks, lkLoad, lkSnapshot, inflight,
                   finished>>
    /\ UNCHANGED <<healthchecks, storeOps, phase, loadPc, healthChecks,
                   dispatched, sinceLoad, setBy, lastApplied, lastRemoved,
                   lastOp>>
    /\ UNCHANGED <<aggVars, pctVars, ltVars, clockVars, probeVars>>

\* loadHealthChecks, line 90: the deferred Unlock; the call returns, to
\* Start if it was the first one
LockLoadUnlock ==
    /\ lkLoad = "upsert"
    /\ loadTodo = {}
    /\ mu' = "free"
    /\ lkLoad' = "idle"
    /\ phase' = "running"
    /\ UNCHANGED <<tickPc, tickTodo, lkTicks, loadTodo, lkSnapshot, inflight,
                   finished>>
    /\ UNCHANGED <<healthchecks, storeOps, counters, loadPc, healthChecks,
                   dispatched, sinceLoad, setBy, lastApplied, lastRemoved,
                   lastOp>>
    /\ UNCHANGED <<aggVars, pctVars, ltVars, clockVars, probeVars>>

\* executeHealthCheck returns: it worked on the HealthCheck it was passed
\* by value and took no lock
ProbeReturns ==
    /\ \E hc \in inflight, outcome \in ProbeOutcomes :
        /\ inflight' = inflight \ {hc}
        /\ finished' = finished \cup {[hc |-> hc, outcome |-> outcome]}
    /\ UNCHANGED <<mu, tickPc, tickTodo, lkTicks, lkLoad, loadTodo, lkSnapshot>>
    /\ UNCHANGED schedVars
    /\ UNCHANGED <<aggVars, pctVars, ltVars, clockVars, probeVars>>

\* the store holds two active definitions, of intervals 1 and 2, and Start
\* has not made its first load yet
LockInit ==
    /\ AggIdle
    /\ PctIdle
    /\ LtIdle
    /\ ClockIdle
    /\ ProbeIdle
    /\ LockIdle
    /\ healthchecks = [id \in IDs |->
                          IF id = "id1" THEN NewDoc("id1", "n1", 1)
                                        ELSE NewDoc("id2", "n2", 2)]
    /\ storeOps = 0
    /\ counters = <<>>
    /\ phase = "initial"
    /\ loadPc = "idle"
    /\ healthChecks = {}
    /\ dispatched = {}
    /\ sinceLoad = <<>>
    /\ setBy = <<>>
    /\ lastApplied = <<>>
    /\ lastRemoved = {}
    /\ lastOp = "init"

LockNext ==
    \/ LockStoreWrite
    \/ TickLock
    \/ TickVisit
    \/ TickUnlock
    \/ LockLoadRead
    \/ LockLoadLock
    \/ LockLoadRemove
    \/ LockLoadUpsert
    \/ LockLoadUnlock
    \/ ProbeReturns

LockSpec == LockInit /\ [][LockNext]_vars

(***************************************************************************)
(* The scheduler's properties.                                             *)
(***************************************************************************)
ListIDs(hcs) == {hc.ID : hc \in hcs}

DispatchedIDs == {hc.ID : hc \in dispatched}

\* a step in which loadHealthChecks takes the lock and reconciles
ApplyStep == loadPc = "loaded" /\ loadPc' = "idle"

\* C1: with every interval >= 1, every entry of the table has
\* 0 <= Counter <= Interval of the definition it holds, after every tick and
\* after every reconciliation, whatever their interleaving.
C1_CountdownInRange ==
    \A id \in DOMAIN counters :
        /\ counters[id].HealthCheck.Interval >= 1
        /\ 0 <= counters[id].Counter
        /\ counters[id].Counter <= counters[id].HealthCheck.Interval

\* a tick has just reset one entry (its probe dispatched) while another entry
\* is in the middle of its period
C1_Witness ==
    /\ lastOp = "tick"
    /\ \E a, b \in DOMAIN counters :
        /\ counters[a].HealthCheck \in dispatched
        /\ counters[a].Counter = counters[a].HealthCheck.Interval
        /\ counters[b].Counter > 0
        /\ counters[b].Counter < counters[b].HealthCheck.Interval

\* C2: an entry added by a load with interval k, and not updated since, is
\* dispatched by a tick exactly when the number of ticks handled since the
\* load is a positive multiple of k.
C2_FiresEveryKthTick ==
    lastOp = "tick" =>
        \A id \in DOMAIN counters :
            setBy[id] = "add" =>
                (id \in DispatchedIDs
                    <=> /\ sinceLoad[id] > 0
                        /\ sinceLoad[id] % counters[id].HealthCheck.Interval = 0)

\* the second firing of an entry with the longest interval, on tick 2k
C2_Witness ==
    /\ lastOp = "tick"
    /\ \E id \in DOMAIN counters :
        /\ setBy[id] = "add"
        /\ counters[id].HealthCheck.Interval = MaxInterval
        /\ sinceLoad[id] = 2 * MaxInterval
        /\ id \in DispatchedIDs

\* C3: a reconciliation that applies the same list as the previous one leaves
\* the entry table as it was (ids, definitions and countdowns), with or
\* without ticks in between; in particular it resets no countdown.
C3_ReconcileIdempotent ==
    [][(ApplyStep /\ lastApplied = <<healthChecks>>) => counters' = counters]_vars

\* the same list was applied again while an entry was part-way through its
\* period, and the entry kept its countdown
C3_Witness ==
    /\ lastOp = "reapply"
    /\ \E id \in DOMAIN counters :
        /\ sinceLoad[id] > 0
        /\ counters[id].Counter < counters[id].HealthCheck.Interval

\* C4: a reconciliation leaves in the table exactly the ids of the list the
\* store returned, and every id that was not in the table enters it with the
\* loaded definition and Counter = Interval.
C4_TableMatchesActiveSet ==
    [][ApplyStep =>
        /\ DOMAIN counters' = ListIDs(healthChecks)
        /\ \A hc \in healthChecks :
            hc.ID \notin DOMAIN counters =>
                counters'[hc.ID] = [HealthCheck |-> hc, Counter |-> hc.Interval]]_vars

\* a reconciliation has just removed an entry whose probe had been dispatched
C4_Witness ==
    /\ lastOp = "apply"
    /\ lastRemoved # {}
    /\ \E hc \in dispatched : hc.ID \in lastRemoved

\* the fields whose change makes loadHealthChecks replace an entry
KeyFields == {"URL", "Interval", "Method", "StatusCode"}

KeyDiffers(old, hc) == \E f \in KeyFields : GetField(old, f) # GetField(hc, f)

\* C5: when the loaded definition of an existing entry differs in url,
\* interval, method or expected status code, the reconciliation replaces the
\* definition and sets Counter to the new interval; from then on the entry is
\* dispatched exactly on the ticks that are a positive multiple of the new
\* interval after that reconciliation.
C5_UpdateResetsCountdown ==
    /\ [][ApplyStep =>
            \A hc \in healthChecks :
                (hc.ID \in DOMAIN counters /\ KeyDiffers(counters[hc.ID].HealthCheck, hc))
                    => counters'[hc.ID] = [HealthCheck |-> hc, Counter |-> hc.Interval]]_vars
    /\ [](lastOp = "tick" =>
            \A id \in DOMAIN counters :
                setBy[id] = "update" =>
                    (id \in DispatchedIDs
                        <=> /\ sinceLoad[id] > 0
                            /\ sinceLoad[id] % counters[id].HealthCheck.Interval = 0))

\* an entry updated to a longer interval is dispatched on the tick that
\* completes the new interval
C5_Witness ==
    /\ lastOp = "tick"
    /\ \E id \in DOMAIN counters :
        /\ setBy[id] = "update"
        /\ counters[id].HealthCheck.Interval = MaxInterval
        /\ sinceLoad[id] = MaxInterval
        /\ id \in DispatchedIDs

\* the ids the last completed reconciliation saw active (none before the first)
SeenActive == IF lastApplied = <<>> THEN {} ELSE ListIDs(lastApplied[1])

\* C6: the table holds exactly the ids the last completed reconciliation saw
\* active, every definition it holds has status "active", and a tick
\* dispatches probes only for those ids: a definition the last reconciliation
\* did not see active has no entry and gets no probe.
C6_NoProbeAfterRemoval ==
    /\ DOMAIN counters = SeenActive
    /\ \A id \in DOMAIN counters : counters[id].HealthCheck.Status = "active"
    /\ lastOp = "tick" =>
        /\ dispatched \subseteq {counters[id].HealthCheck : id \in DOMAIN counters}
        /\ DispatchedIDs \subseteq SeenActive

\* a definition was deactivated, the next reconciliation removed its entry,
\* and a tick handled afterwards dispatched nothing for it
C6_Witness ==
    /\ lastOp = "tick"
    /\ \E id \in lastRemoved :
        /\ healthchecks[id] # NoDoc
        /\ healthchecks[id].Status = "inactive"
        /\ id \notin DOMAIN counters
        /\ id \notin DispatchedIDs

(***************************************************************************)
(* The aggregation's properties.                                           *)
(***************************************************************************)
\* the summaries built or persisted
Summaries ==
    {summary[i] : i \in 1..Len(summary)}
        \cup {loadtest_metrics[i] : i \in 1..Len(loadtest_metrics)}

\* the three classes of the results received
Errored == {i \in 1..Len(drained) : drained[i].Error}

WrongStatus ==
    {i \in 1..Len(drained) : ~drained[i].Error /\ drained[i].StatusCode # expected}

Succeeded ==
    {i \in 1..Len(drained) : ~drained[i].Error /\ drained[i].StatusCode = expected}

\* C7: in every summary, successfulRequests + failedRequests = totalRequests
\* and errorCount <= failedRequests; errorCount is the number of results with
\* a transport error, failedRequests - errorCount the number of results with
\* no error and an unexpected status, successfulRequests the rest.
C7_CountsPartition ==
    \A doc \in Summaries :
        /\ doc.totalRequests = Len(drained)
        /\ doc.successfulRequests + doc.failedRequests = doc.totalRequests
        /\ doc.errorCount <= doc.failedRequests
        /\ doc.errorCount = Cardinality(Errored)
        /\ doc.failedRequests - doc.errorCount = Cardinality(WrongStatus)
        /\ doc.successfulRequests = Cardinality(Succeeded)

\* a persisted summary of a run with a success, a wrong status and a
\* transport error
C7_Witness ==
    /\ loadtest_metrics # <<>>
    /\ loadtest_metrics[1].successfulRequests >= 1
    /\ loadtest_metrics[1].errorCount >= 1
    /\ loadtest_metrics[1].failedRequests > loadtest_metrics[1].errorCount

RECURSIVE SumValues(_, _)
SumValues(f, keys) ==
    IF keys = {}
    THEN 0
    ELSE LET k == CHOOSE x \in keys : TRUE
         IN  f[k] + SumValues(f, keys \ {k})

\* C8: in every summary the counts of statusCodes add up to
\* totalRequests - errorCount; its keys are exactly the status codes of the
\* results without a transport error, each with the number of such results;
\* when every request errored, statusCodes is empty and successRate is 0.
C8_HistogramCountsAnswered ==
    \A doc \in Summaries :
        /\ SumValues(doc.statusCodes, DOMAIN doc.statusCodes)
                = doc.totalRequests - doc.errorCount
        /\ DOMAIN doc.statusCodes
                = {drained[i].StatusCode : i \in (1..Len(drained)) \ Errored}
        /\ \A c \in DOMAIN doc.statusCodes :
                doc.statusCodes[c]
                    = Cardinality({i \in (1..Len(drained)) \ Errored :
                                        drained[i].StatusCode = c})
        /\ doc.errorCount = doc.totalRequests =>
                /\ DOMAIN doc.statusCodes = {}
                /\ doc.successRate.num = 0

\* a persisted summary of a run with a transport error and two different
\* status codes
C8_Witness ==
    /\ loadtest_metrics # <<>>
    /\ loadtest_metrics[1].errorCount >= 1
    /\ Cardinality(DOMAIN loadtest_metrics[1].statusCodes) = 2

\* C9: in every summary minTime <= medianTime <= p95Time <= p99Time <= maxTime;
\* p95Time = maxTime when there are fewer than 20 samples, p99Time = maxTime
\* when there are fewer than 100; with one sample all five equal it.
C9_PercentilesOrdered ==
    \A doc \in Summaries :
        /\ doc.totalRequests >= 1
        /\ doc.minTime <= doc.medianTime
        /\ doc.medianTime <= doc.p95Time
        /\ doc.p95Time <= doc.p99Time
        /\ doc.p99Time <= doc.maxTime
        /\ doc.totalRequests < 20 => doc.p95Time = doc.maxTime
        /\ doc.totalRequests < 100 => doc.p99Time = doc.maxTime
        /\ doc.totalRequests = 1 =>
                /\ doc.minTime = drained[1].ResponseTime
                /\ doc.medianTime = drained[1].ResponseTime
                /\ doc.p95Time = drained[1].ResponseTime
                /\ doc.p99Time = drained[1].ResponseTime
                /\ doc.maxTime = drained[1].ResponseTime

\* a persisted summary of more than 100 samples whose five figures all differ
C9_Witness ==
    /\ loadtest_metrics # <<>>
    /\ loadtest_metrics[1].totalRequests > 100
    /\ loadtest_metrics[1].minTime < loadtest_metrics[1].medianTime
    /\ loadtest_metrics[1].medianTime < loadtest_metrics[1].p95Time
    /\ loadtest_metrics[1].p95Time < loadtest_metrics[1].p99Time
    /\ loadtest_metrics[1].p99Time < loadtest_metrics[1].maxTime

\* floor(n / 100), by its defining inequalities
Floor100(n) == CHOOSE k \in 0..n : k * 100 <= n /\ n < (k + 1) * 100

Min(a, b) == IF a <= b THEN a ELSE b

\* C10: on an ascending list of N >= 1 samples and a rank p of 50, 95 or 99,
\* calculatePercentile returns the sample at 0-based index
\* min(floor(N * p / 100), N - 1); on the empty list it returns 0.
C10_NearestRankFloor ==
    pctPc = "done" =>
        LET N == Len(sortedTimes)
        IN  IF N = 0
            THEN pctOut = 0
            ELSE pctOut = sortedTimes[Min(Floor100(N * percentile), N - 1) + 1]

\* the 95th percentile of the longest list, below its maximum
C10_Witness ==
    /\ pctPc = "done"
    /\ percentile = 95
    /\ Len(sortedTimes) = MaxLong
    /\ pctOut < sortedTimes[Len(sortedTimes)]
    /\ pctOut > sortedTimes[1]

(***************************************************************************)
(* The load-test engine's properties.                                      *)
(***************************************************************************)
\* the run got past Execute's pre-flight checks
PassedPreflight(r) == prod[r].pc # "none"

\* Execute has built its summary or returned
Aggregated(r) == execPc[r] \in {"insert", "returned"}

\* the tokens 0, 1, ..., n-1 in the order the producer sends them
Tokens(n) == [i \in 1..n |-> i - 1]

InMetrics(doc) == \E i \in 1..Len(loadtest_metrics) : loadtest_metrics[i] = doc

\* C11: a run that passed pre-flight and is not cancelled issues exactly
\* totalCalls = threads x callsPerThread requests over all its workers: the
\* tokens received are 0, 1, ... each once, never more than totalCalls, and
\* once the workers are done all totalCalls of them were received and
\* answered; the summary it persists has totalRequests = testConfig.totalCalls.
C11_ExactlyTotalCalls ==
    \A r \in Runs :
        (PassedPreflight(r) /\ ~ctxDone[r]) =>
            LET n == req[r].Threads * req[r].CallsPerThread
            IN  /\ totalCalls[r] = n
                /\ consumed[r] = Tokens(Len(consumed[r]))
                /\ Len(consumed[r]) <= n
                /\ Len(emitted[r]) <= Len(consumed[r])
                /\ Aggregated(r) =>
                        /\ Len(consumed[r]) = n
                        /\ Len(emitted[r]) = n
                        /\ runSummary[r] # <<>>
                        /\ runSummary[r][1].result.totalRequests = n
                        /\ runSummary[r][1].testConfig.totalCalls = n
                /\ execRet[r] = "nil" => InMetrics(runSummary[r][1])

\* two workers shared four tokens and the summary is persisted
C11_Witness ==
    /\ req[1].Threads = 2
    /\ req[1].CallsPerThread = 2
    /\ ~ctxDone[1]
    /\ execRet[1] = "nil"
    /\ Len(emitted[1]) = 4
    /\ Len(loadtest_metrics) = 1
    /\ loadtest_metrics[1].result.totalRequests = 4

\* the request fails one of Execute's checks on its own fields or its name
\* is taken
FailsPreflight(r) ==
    \/ req[r].Name = ""
    \/ req[r].CallsPerThread < 1
    \/ req[r].Threads < 1
    \/ req[r].Name \in loadtesting_metrics

PreflightErrors ==
    {"name is required", "error checking test name", "already exists",
     "callsPerThread must be greater than 0", "threads must be greater than 0"}

\* nothing of run r went out: no request, no log write, no summary insert
NothingDone(r) ==
    /\ ~PassedPreflight(r)
    /\ workers[r] = NoWorkers
    /\ consumed[r] = <<>>
    /\ emitted[r] = <<>>
    /\ logOutcomes[r].tried = 0
    /\ runSummary[r] = <<>>
    /\ inserts[r] = <<>>

CountOf(rs, Cond(_)) == Cardinality({i \in 1..Len(rs) : Cond(rs[i])})

IsError(res) == res.Error

IsSuccess(res) == ~res.Error /\ res.StatusCode = 200

\* C17: log writes that fail neither stop the run nor touch the aggregate:
\* however many of them failed, an uncancelled run still issues all its
\* totalCalls requests and attempts a log write for each, Execute fails with
\* no error a log write caused, and the summary is the function of the
\* results emitted alone, the same whether or not log writes failed.
C17_LogFailureIsSwallowed ==
    \A r \in Runs :
        (PassedPreflight(r) /\ Aggregated(r)) =>
            /\ ~ctxDone[r] =>
                    /\ Len(emitted[r]) = totalCalls[r]
                    /\ logOutcomes[r].tried = totalCalls[r]
            /\ emitted[r] # <<>> =>
                    /\ runSummary[r] # <<>>
                    /\ runSummary[r][1] =
                           LoadTestResult(req[r], totalCalls[r],
                               AccumulateAll(Accumulators, emitted[r],
                                             req[r].ExpectedStatusCode))
                    /\ runSummary[r][1].result.totalRequests = Len(emitted[r])
                    /\ runSummary[r][1].result.errorCount = CountOf(emitted[r], IsError)
                    /\ runSummary[r][1].result.successfulRequests =
                           CountOf(emitted[r], IsSuccess)
                    /\ execPc[r] = "returned" =>
                           execRet[r] \in {"nil", "error saving metrics"}

\* every log write of a two-request run failed and the run still persisted
\* a summary of both requests
C17_Witness ==
    /\ ~ctxDone[1]
    /\ totalCalls[1] = 2
    /\ logOutcomes[1] = [tried |-> 2, failed |-> 2]
    /\ loadtest_logs = EmptyBag
    /\ execRet[1] = "nil"
    /\ Len(loadtest_metrics) = 1
    /\ loadtest_metrics[1].result.totalRequests = 2

\* the summaries of run r's name held by "loadtest_metrics"
SummariesOf(r) ==
    {i \in 1..Len(loadtest_metrics) : loadtest_metrics[i].name = req[r].Name}

\* C18: the summary insert is attempted at most once per run; when it
\* fails, Execute has returned the error "error saving metrics", no summary
\* of the run is in loadtest_metrics, and every log record written for the
\* run is still in its log collection.
C18_SummaryInsertFailure ==
    \A r \in Runs :
        execPc[r] # "none" =>
            /\ Len(inserts[r]) <= 1
            /\ BagCardinality(loadtest_logs) =
                   logOutcomes[r].tried - logOutcomes[r].failed
            /\ inserts[r] = <<FALSE>> =>
                   /\ execPc[r] = "returned"
                   /\ execRet[r] = "error saving metrics"
                   /\ execRet[r] # "nil"
                   /\ SummariesOf(r) = {}

\* the insert of an uncancelled run failed after its two log records were
\* written
C18_Witness ==
    /\ ~ctxDone[1]
    /\ inserts[1] = <<FALSE>>
    /\ execRet[1] = "error saving metrics"
    /\ logOutcomes[1] = [tried |-> 2, failed |-> 0]
    /\ BagCardinality(loadtest_logs) = 2
    /\ loadtest_metrics = <<>>

\* Execute has returned, and if it had started its goroutines the jobs
\* channel was closed once, the producer is done and every worker exited
Finished(r) ==
    /\ execPc[r] = "returned"
    /\ PassedPreflight(r) =>
          /\ prod[r].pc = "done"
          /\ jobsClosed[r] = 1
          /\ \A w \in DOMAIN workers[r] : workers[r][w].pc = "exit"

\* C19: from any point at which the context of a running Execute is
\* cancelled, the producer ends with the jobs channel closed, every worker
\* exits and Execute returns, given that goroutines are scheduled and that
\* HTTP and store calls return.
C19_CancelledRunTerminates ==
    \A r \in Runs : ctxDone[r] ~> Finished(r)

\* a cancelled run whose producer closed the channel before sending all
\* tokens has returned, all its workers gone
C19_Witness ==
    /\ ctxDone[1]
    /\ prod[1].pc = "done"
    /\ prod[1].i < totalCalls[1]
    /\ req[1].Threads = 2
    /\ \A w \in DOMAIN workers[1] : workers[1][w].pc = "exit"
    /\ execPc[1] = "returned"

\* C20: once the context of a run is cancelled before its summary insert
\* has begun, no summary of the run is ever in loadtest_metrics and no
\* insert of it succeeds; when Execute returns it returns an error, which
\* is "no requests were executed" when no result was emitted at all.
C20_NoSummaryAfterCancel ==
    \A r \in Runs :
        ctxDone[r] =>
            /\ SummariesOf(r) = {}
            /\ inserts[r] \in {<<>>, <<FALSE>>}
            /\ execPc[r] = "returned" =>
                  /\ execRet[r] \in PreflightErrors
                        \cup {"no requests were executed", "error saving metrics"}
                  /\ (PassedPreflight(r) /\ emitted[r] = <<>>) =>
                        execRet[r] = "no requests were executed"

\* a run cancelled after it emitted a result tried its insert under the
\* cancelled context and returned the insert's error
C20_Witness ==
    /\ ctxDone[1]
    /\ Len(emitted[1]) >= 1
    /\ ~emitted[1][1].Error
    /\ inserts[1] = <<FALSE>>
    /\ execPc[1] = "returned"
    /\ execRet[1] = "error saving metrics"
    /\ loadtest_metrics = <<>>

(***************************************************************************)
(* The control plane's properties.                                         *)
(***************************************************************************)
\* a step in which handleLoadTest takes a well-formed POST for the name
\* and its name check gets an answer from the store
HandlesKickoff(name) ==
    /\ hPc = "idle"
    /\ <<hPc, lastHttp, lastResponse>>' # <<hPc, lastHttp, lastResponse>>
    /\ lastHttp'.Method = "POST"
    /\ lastHttp'.Decodes
    /\ lastHttp'.Body.Name = name
    /\ lastHttp'.Body.URL # ""
    /\ lastHttp'.storeOk

\* run r was started by a kickoff, has returned nil and its summary is in
\* "loadtest_metrics"
Persisted(r) ==
    /\ r <= spawned
    /\ execRet[r] = "nil"
    /\ InMetrics(runSummary[r][1])

\* C12: once the run of a kickoff named n has persisted its summary, a
\* later well-formed POST with the name n is answered 409 and starts no run.
C12_DuplicateNameRejected ==
    [][\A r \in Runs :
          (Persisted(r) /\ HandlesKickoff(req[r].Name)) =>
              /\ lastResponse'.code = 409
              /\ hPc' = "idle"
              /\ spawned' = spawned]_vars

\* a step of handleLoadTest up to its error response or its "go" statement
HandlerStep ==
    /\ hPc = "idle"
    /\ <<hPc, lastHttp, lastResponse>>' # <<hPc, lastHttp, lastResponse>>

\* the request passes every check of the handler
Accepted(h) ==
    /\ h.Method = "POST"
    /\ h.Decodes
    /\ h.Body.Name # ""
    /\ h.Body.URL # ""
    /\ h.storeOk
    /\ ~h.exists

\* the status of the first check the request fails, in the handler's order
Refusal(h) ==
    CASE h.Method # "POST" -> 405
      [] h.Method = "POST" /\ ~h.Decodes -> 400
      [] h.Method = "POST" /\ h.Decodes /\ h.Body.Name = "" -> 400
      [] h.Method = "POST" /\ h.Decodes /\ h.Body.Name # "" /\ h.Body.URL = "" -> 400
      [] h.Method = "POST" /\ h.Decodes /\ h.Body.Name # "" /\ h.Body.URL # ""
            /\ ~h.storeOk -> 500
      [] h.Method = "POST" /\ h.Decodes /\ h.Body.Name # "" /\ h.Body.URL # ""
            /\ h.storeOk /\ h.exists -> 409

RunCanStep(r) ==
    \/ ENABLED ExecuteNameCheck(r)
    \/ ENABLED ExecuteSetup(r)
    \/ ENABLED ProducerSend(r)
    \/ ENABLED ProducerClose(r)
    \/ \E w \in DOMAIN workers[r] :
          \/ ENABLED WorkerTake(r, w)
          \/ ENABLED WorkerExit(r, w)
          \/ ENABLED executeRequest(r, w)
          \/ ENABLED saveLog(r, w)
    \/ ENABLED WaitAndProcess(r)
    \/ ENABLED SaveMetrics(r)

\* C14: an accepted kickoff is fire-and-forget: the handler can send its
\* 200 response in every state after the "go" statement, whatever the run
\* has or has not done, and a started run that has not returned can always
\* take a step, whether the handler has returned or not, under a context
\* that is never cancelled.
C14_FireAndForget ==
    /\ hPc = "respond" => ENABLED Respond
    /\ \A r \in Runs :
          /\ ~ctxDone[r]
          /\ execPc[r] \notin {"none", "returned"} => RunCanStep(r)

\* the 200 response of the first kickoff is out and its run has not taken
\* a step yet, while the handler is already idle again
C14_Witness ==
    /\ hPc = "idle"
    /\ lastResponse.code = 200
    /\ lastResponse.run = 1
    /\ execPc[1] = "start"

\* the per-request timeout a run's own request asks for, in seconds
OwnTimeout(r) == IF req[r].Timeout > 0 THEN req[r].Timeout ELSE DefaultTimeout

\* C16: every request of every run is executed with the timeout of the
\* run's own request, 30 seconds when the request leaves it unset, whatever
\* the runs before it or beside it on the same executor asked for.
C16_TimeoutFromOwnRequest ==
    \A r \in Runs : usedTimeout[r] \subseteq {OwnTimeout(r)}

(***************************************************************************)
(* Properties of the Tick Source.                                          *)
(***************************************************************************)
\* a step of Start that takes one pulse from its ticker
PulseStep == pulses' = pulses + 1

\* the pulses counted so far are each handed over or dropped, the subscriber
\* has handled no more than were handed over, and tickChan holds at most one
TickCounts ==
    /\ pulses = delivered + dropped
    /\ handled <= delivered
    /\ handled <= pulses
    /\ delivered - handled - tickChan \in {0, 1}
    /\ tickChan <= 1

\* C21: the Tick Source never blocks and never queues: a pulse is handed to
\* the subscriber only if the subscriber is waiting for it and is dropped
\* otherwise, Start being back at its select either way; the ticks handled
\* never exceed the pulses generated and at most one tick is pending
C21_BestEffortTicks ==
    /\ []TickCounts
    /\ [][PulseStep =>
            /\ clockPc' = "select"
            /\ IF subPc = "recv"
               THEN /\ delivered' = delivered + 1
                    /\ dropped' = dropped
                    /\ subPc' = "tick"
               ELSE /\ dropped' = dropped + 1
                    /\ delivered' = delivered
                    /\ subPc' = subPc
                    /\ tickChan' = tickChan]_vars

\* a pulse was dropped, a tick was handled and another one is being handled
C21_Witness ==
    /\ dropped >= 1
    /\ handled >= 1
    /\ subPc = "tick"

\* C22: Clock.Stop is idempotent: after any number of calls, in any
\* interleaving with Start, the stop channel is closed as after one call and
\* no call has faulted
C22_StopIdempotent ==
    stopCalls >= 1 => (stopChan = "closed" /\ ~clockFault)

(***************************************************************************)
(* Properties of a probe.                                                  *)
(***************************************************************************)
\* C23: every probe execution attempts to persist exactly one log record,
\* into healthcheck_<name>, on whichever path it returns (request build
\* failure, transport error, body read error, response received): none
\* before it returns, one when it has, never two
C23_OneLogPerProbe ==
    /\ probePc \in {"request", "do", "read", "check"} => saveLogCalls = <<>>
    /\ probePc = "returned" =>
        /\ probePath \in {"request", "transport", "read", "response"}
        /\ Len(saveLogCalls) = 1
        /\ saveLogCalls[1].collection = <<"healthcheck_", probeHc.Name>>

\* a probe returned on a body read error and its one insert failed, after
\* an earlier probe whose record was stored
C23_Witness ==
    /\ probePc = "returned"
    /\ probePath = "read"
    /\ Len(saveLogCalls) = 1
    /\ ~saveLogCalls[1].inserted
    /\ probes = 2
    /\ healthcheck_logs # EmptyBag


\* C24: the success field of a health-check log is true iff the probe had
\* no error and the observed status code equals the expected one, whether
\* or not the body matched; on a transport error the record has status
\* code 0, success false and the error message set
C24_SuccessIsStatusOnly ==
    /\ \A c \in DOMAIN saveLogCalls :
        /\ saveLogCalls[c].inserted =>
             BagIn([collection |-> saveLogCalls[c].collection,
                    entry |-> saveLogCalls[c].entry], healthcheck_logs)
        /\ saveLogCalls[c].entry.Success <=>
             /\ probePath = "response"
             /\ probeResp.StatusCode = probeHc.StatusCode
        /\ (saveLogCalls[c].entry.Error = <<>>) <=> (probePath = "response")
        /\ probePath \in {"read", "response"} =>
             saveLogCalls[c].entry.StatusCode = probeResp.StatusCode
        /\ probePath \in {"transport", "request"} =>
             /\ saveLogCalls[c].entry.StatusCode = 0
             /\ ~saveLogCalls[c].entry.Success
             /\ saveLogCalls[c].entry.Error # <<>>
    /\ \A rec \in BagToSet(healthcheck_logs) :
        rec.entry.Success =>
            /\ rec.entry.Error = <<>>
            /\ rec.entry.StatusCode \in ExpectedCodes

\* a record with success true is stored for a probe whose body did not
\* match the expected body
C24_Witness ==
    /\ probePc = "returned"
    /\ probePath = "response"
    /\ probeHc.ExpectedBody = "ok"
    /\ probeResp.Body = "ko"
    /\ ~probeSuccess
    /\ saveLogCalls[1].inserted
    /\ saveLogCalls[1].entry.Success

(***************************************************************************)
(* Properties of a failed reconciliation.                                  *)
(***************************************************************************)
\* a step of loadHealthChecks whose store read failed
ReadFailedStep == lastOp' = "readErr"

\* C25: when the store read of a reconciliation fails, the entry table is
\* left unchanged (no entry added, removed, updated or reset), the scheduler
\* goes on handling ticks with the entries it had, and the next
\* reconciliation reads the store again
C25_FailedLoadChangesNothing ==
    /\ [][ReadFailedStep =>
            /\ counters' = counters
            /\ sinceLoad' = sinceLoad
            /\ dispatched' = dispatched
            /\ lastApplied' = lastApplied]_vars
    /\ [](lastOp = "readErr" =>
            /\ phase = "running"
            /\ ((\A id \in DOMAIN counters : sinceLoad[id] < MaxTicks)
                    => ENABLED Tick)
            /\ ENABLED LoadRead)

\* a read failed while the table held an entry in the middle of its
\* countdown and the store had changed since the table was built
C25_Witness ==
    /\ lastOp = "readErr"
    /\ \E id \in DOMAIN counters :
        /\ counters[id].Counter < counters[id].HealthCheck.Interval
        /\ healthchecks[id] # counters[id].HealthCheck

(***************************************************************************)
(* Properties of the workers of a run and of its results channel.          *)
(***************************************************************************)
\* the workers of run r that are at saveLog, their result already sent
AtLog(r) == {w \in DOMAIN workers[r] : workers[r][w].pc = "log"}

\* the workers of run r that are in executeRequest
InFlight(r) == {w \in DOMAIN workers[r] : workers[r][w].pc = "request"}

\* C26: for every request a worker processes, the write of its LoadTestLog
\* has completed or failed before the worker emits the result: at every
\* point no more results were emitted than log writes were made
C26_LogBeforeEmit ==
    \A r \in Runs : Len(emitted[r]) <= logOutcomes[r].tried

\* C26, as the code has it: a worker emits the result of a request first
\* and writes its LoadTestLog next, before it receives another token; the
\* results emitted are the log writes made plus one for each worker that is
\* at its log write, and a log write is only made of a result emitted
C26_LogAfterEmit ==
    /\ [](\A r \in Runs :
            /\ Len(emitted[r]) = logOutcomes[r].tried + Cardinality(AtLog(r))
            /\ \A w \in AtLog(r) :
                \E i \in DOMAIN emitted[r] : emitted[r][i] = workers[r][w].result)
    /\ [][\A r \in Runs :
            logOutcomes'[r].tried # logOutcomes[r].tried =>
                /\ logOutcomes'[r].tried = logOutcomes[r].tried + 1
                /\ emitted'[r] = emitted[r]
                /\ Len(emitted[r]) > logOutcomes[r].tried
                /\ consumed'[r] = consumed[r]]_vars

\* both workers have emitted the result of their second request and neither
\* has written its log yet
C26_Witness ==
    /\ Cardinality(AtLog(1)) = 2
    /\ Len(emitted[1]) = 4
    /\ logOutcomes[1].tried = 2

\* C27: within a run the results channel is closed and aggregation starts
\* only after every worker has finished: no worker emits a result once
\* Execute has gone past wg.Wait, every log write was attempted before the
\* summary insert, and the summary's totalRequests is the number of results
\* the workers emitted
C27_AggregateAfterWorkers ==
    /\ [](\A r \in Runs :
            (PassedPreflight(r) /\ Aggregated(r)) =>
                /\ \A w \in DOMAIN workers[r] : workers[r][w].pc = "exit"
                /\ DOMAIN workers[r] # {}
                /\ logOutcomes[r].tried = Len(emitted[r])
                /\ runSummary[r] # <<>> =>
                     runSummary[r][1].result.totalRequests = Len(emitted[r])
                /\ inserts[r] # <<>> => runSummary[r] # <<>>)
    /\ [][\A r \in Runs :
            (emitted'[r] # emitted[r] \/ logOutcomes'[r] # logOutcomes[r]) =>
                /\ execPc[r] = "running"
                /\ inserts[r] = <<>>]_vars

\* a run of two workers that emitted three results before it was cancelled
\* has built its summary of three requests and tried to insert it
C27_Witness ==
    /\ req[1].Threads = 2
    /\ Len(emitted[1]) = 3
    /\ logOutcomes[1].tried = 3
    /\ runSummary[1] # <<>>
    /\ inserts[1] # <<>>

\* C28: at every point of a run the results channel holds at most totalCalls
\* results, so a worker that has a result to emit can always emit it, though
\* nothing reads the channel before all workers have finished
C28_EmitNeverBlocks ==
    \A r \in Runs :
        /\ Len(resultsCh[r]) <= totalCalls[r]
        /\ execPc[r] = "running" => resultsCh[r] = emitted[r]
        /\ \A w \in InFlight(r) : ENABLED executeRequest(r, w)

\* three results wait in the channel, unread, while a worker is about to
\* emit the fourth and last
C28_Witness ==
    /\ totalCalls[1] = 4
    /\ Len(resultsCh[1]) = 3
    /\ InFlight(1) # {}
    /\ execPc[1] = "running"

\* C29: the worker pool is bounded: a run that passed pre-flight has exactly
\* `threads` workers at every point, and at most `threads` of its HTTP
\* requests are in flight at once, whatever totalCalls is
C29_BoundedPool ==
    \A r \in Runs :
        /\ PassedPreflight(r) =>
            /\ Cardinality(DOMAIN workers[r]) = req[r].Threads
            /\ DOMAIN workers[r] = 1..req[r].Threads
        /\ ~PassedPreflight(r) => DOMAIN workers[r] = {}
        /\ Cardinality(InFlight(r)) <= req[r].Threads

\* a run of two threads and four calls has two requests in flight while
\* the other two tokens wait in the jobs channel
C29_Witness ==
    /\ req[1].Threads = 2
    /\ totalCalls[1] = 4
    /\ Cardinality(InFlight(1)) = 2
    /\ Len(jobs[1]) = 2

\* C30: a run that passed pre-flight and is never cancelled returns: the
\* producer has sent all totalCalls tokens and closed the jobs channel once,
\* every worker has exited, and the aggregation ran once, building one
\* summary and making one insert of it; given that goroutines are scheduled
\* and that every HTTP request and store call returns
C30_UncancelledRunReturns ==
    /\ \A r \in Runs : PassedPreflight(r) ~> (Finished(r) \/ ctxDone[r])
    /\ [](\A r \in Runs :
            (PassedPreflight(r) /\ ~ctxDone[r] /\ execPc[r] = "returned") =>
                /\ prod[r] = [pc |-> "done", i |-> totalCalls[r]]
                /\ jobsClosed[r] = 1
                /\ consumed[r] = Tokens(totalCalls[r])
                /\ \A w \in DOMAIN workers[r] : workers[r][w].pc = "exit"
                /\ runSummary[r] # <<>>
                /\ Len(inserts[r]) = 1
                /\ execRet[r] \in {"nil", "error saving metrics"})
    /\ [][\A r \in Runs :
            execPc[r] = "returned" => execPc'[r] = "returned"]_vars

\* an uncancelled run of two workers and four calls has returned nil
C30_Witness ==
    /\ ~ctxDone[1]
    /\ req[1].Threads = 2
    /\ totalCalls[1] = 4
    /\ Finished(1)
    /\ execRet[1] = "nil"

(***************************************************************************)
(* Properties of the scheduler's start and of changes to the fields that   *)
(* loadHealthChecks does not compare.                                      *)
(***************************************************************************)
\* C31: the first, synchronous load of Start is over before the scheduler
\* handles its first tick: while it is under way the table is empty, nothing
\* is dispatched and no tick can be handled, and every tick handled finds
\* the first load attempt completed
C31_LoadBeforeFirstTick ==
    /\ [](phase = "initial" =>
            /\ counters = <<>>
            /\ dispatched = {}
            /\ lastOp \notin {"tick", "apply", "reapply", "readErr"}
            /\ ~ENABLED Tick)
    /\ [][lastOp' = "tick" => phase = "running"]_vars

\* the first tick after the first load found the loaded entry and counted
\* it down
C31_Witness ==
    /\ lastOp = "tick"
    /\ lastApplied # <<>>
    /\ \E id \in DOMAIN counters :
        /\ sinceLoad[id] = 1
        /\ setBy[id] = "add"
        /\ counters[id].Counter = counters[id].HealthCheck.Interval - 1

\* C32: when a reconciliation finds an existing entry whose loaded
\* definition differs only in fields other than url, interval, method and
\* expected status code, the entry's countdown is left as it was and the
\* count of ticks towards its next probe goes on
C32_OtherFieldsKeepCountdown ==
    [][ApplyStep =>
        \A hc \in healthChecks :
            (/\ hc.ID \in DOMAIN counters
             /\ hc # counters[hc.ID].HealthCheck
             /\ ~KeyDiffers(counters[hc.ID].HealthCheck, hc))
                => /\ counters'[hc.ID].Counter = counters[hc.ID].Counter
                   /\ sinceLoad'[hc.ID] = sinceLoad[hc.ID]
                   /\ setBy'[hc.ID] = setBy[hc.ID]]_vars

\* a reconciliation has just applied a definition that differs from the
\* entry's in its headers only, to an entry part-way through its period
C32_Witness ==
    /\ lastOp = "apply"
    /\ \E hc \in lastApplied[1] :
        /\ hc.ID \in DOMAIN counters
        /\ hc.Headers # counters[hc.ID].HealthCheck.Headers
        /\ hc = [counters[hc.ID].HealthCheck EXCEPT !.Headers = hc.Headers]
        /\ sinceLoad[hc.ID] > 0
        /\ counters[hc.ID].Counter < hc.Interval

\* C33: after every successful reconciliation each entry's definition equals
\* the version the store returned in every field, the fields other than
\* url, interval, method and expected status code included
C33_MirrorEqualsStore ==
    lastOp \in {"apply", "reapply"} =>
        \A hc \in lastApplied[1] :
            /\ hc.ID \in DOMAIN counters
            /\ counters[hc.ID].HealthCheck = hc

(***************************************************************************)
(* Properties of runs that share a name, and of the jobs channel.          *)
(***************************************************************************)
\* C34: load-test names stay unique in "loadtest_metrics": whatever the
\* interleaving of kickoffs of one name and of their runs, at most one
\* summary document of that name is ever written
C34_NamesUnique ==
    \A n \in TestNames :
        Cardinality({i \in 1..Len(loadtest_metrics) :
                        loadtest_metrics[i].name = n}) <= 1

\* C35: in every execution of a run, cancelled or not and however the
\* producer's steps interleave with the cancellation, the jobs channel is
\* closed exactly once, by the producer as it ends, and no token is sent on
\* it once it is closed
C35_JobsClosedOnce ==
    /\ [](\A r \in Runs :
            /\ jobsClosed[r] <= 1
            /\ (jobsClosed[r] = 1) <=> (prod[r].pc = "done")
            /\ (PassedPreflight(r) /\ execPc[r] = "returned") =>
                    jobsClosed[r] = 1)
    /\ [][\A r \in Runs :
            (Len(jobs'[r]) > Len(jobs[r]) \/ prod'[r].i # prod[r].i) =>
                /\ jobsClosed[r] = 0
                /\ jobsClosed'[r] = 0]_vars

\* the producer of a cancelled run has closed the channel after some of its
\* tokens and before the others, and the run has returned
C35_Witness ==
    /\ ctxDone[1]
    /\ jobsClosed[1] = 1
    /\ prod[1].i > 0
    /\ prod[1].i < totalCalls[1]
    /\ execPc[1] = "returned"

(***************************************************************************)
(* Properties of the log records of a run against its summary.             *)
(***************************************************************************)
\* the LoadTestLog records of run r held by the store
LogsOf(r) ==
    [e \in {x \in BagToSet(loadtest_logs) : x.Name = req[r].Name} |->
        CopiesIn(e, loadtest_logs)]

\* those of them with success = true
SuccessLogsOf(r) ==
    [e \in {x \in BagToSet(loadtest_logs) : x.Name = req[r].Name /\ x.Success} |->
        CopiesIn(e, loadtest_logs)]

\* C37: for every completed, uncancelled run all of whose log writes
\* succeeded, the log records agree with the summary: as many records were
\* written as totalRequests, and as many of them have success = true as
\* successfulRequests
C37_LogsAgreeWithSummary ==
    \A r \in Runs :
        (/\ PassedPreflight(r)
         /\ execPc[r] = "returned"
         /\ ~ctxDone[r]
         /\ logOutcomes[r].failed = 0) =>
            /\ runSummary[r] # <<>>
            /\ BagCardinality(LogsOf(r)) = runSummary[r][1].result.totalRequests
            /\ BagCardinality(SuccessLogsOf(r)) =
                 runSummary[r][1].result.successfulRequests
            /\ BagCardinality(LogsOf(r)) - BagCardinality(SuccessLogsOf(r)) =
                 runSummary[r][1].result.failedRequests

\* a run of four requests, answered with the expected status, with another
\* status and with a transport error, has returned with all four logs written
C37_Witness ==
    /\ execPc[1] = "returned"
    /\ ~ctxDone[1]
    /\ logOutcomes[1] = [tried |-> 4, failed |-> 0]
    /\ runSummary[1] # <<>>
    /\ runSummary[1][1].result.successfulRequests \in {1, 2}
    /\ runSummary[1][1].result.errorCount >= 1
    /\ runSummary[1][1].result.failedRequests >
         runSummary[1][1].result.errorCount

(***************************************************************************)
(* Properties of the end of the Tick Source.                               *)
(***************************************************************************)
\* the Tick Source was told to end, by its context or by Stop
ClockEnded == clockCtxDone \/ stopChan = "closed"

InTick == tickPc = "range"

\* loadHealthChecks is inside its critical section
InLoad == lkLoad \in {"remove", "upsert"}

\* C36: tick handling and reconciliation exclude each other on the entry
\* table and each acts on it as one atomic step: when tick unlocks, the
\* table is the one it locked with every entry ticked, and when the
\* reconciliation unlocks, it is the one it locked reconciled with the list
\* read. A probe works on the definition copied at dispatch and touches no
\* entry: whatever its outcome, its return leaves the table as it is, and
\* no step of a reconciliation changes a probe in flight
C36_TableUnderLock ==
    /\ [](/\ ~(InTick /\ InLoad)
          /\ (mu = "tick") <=> InTick
          /\ (mu = "load") <=> InLoad)
    /\ [][(InTick /\ ~InTick') =>
            counters = [id \in DOMAIN lkSnapshot |-> TickEntry(lkSnapshot[id])]]_vars
    /\ [][(InLoad /\ ~InLoad') =>
            counters = Reconciled(lkSnapshot, healthChecks)]_vars
    /\ [][finished' # finished =>
            /\ counters' = counters
            /\ tickTodo' = tickTodo
            /\ \E hc \in inflight, outcome \in ProbeOutcomes :
                /\ finished' = finished \cup {[hc |-> hc, outcome |-> outcome]}
                /\ inflight' = inflight \ {hc}]_vars
    /\ [][(lkLoad' # lkLoad \/ loadTodo' # loadTodo
                \/ (mu = "load" /\ counters' # counters)) =>
            /\ inflight' = inflight
            /\ finished' = finished]_vars

\* a probe is in flight on a definition that a reconciliation has since
\* replaced in the table, another one on a definition whose entry was
\* removed has returned with a failed log write, and the table is unlocked
C36_Witness ==
    /\ mu = "free"
    /\ \E hc \in inflight :
        /\ hc.ID \in DOMAIN counters
        /\ counters[hc.ID].HealthCheck.URL # hc.URL
    /\ \E f \in finished :
        /\ f.outcome = "log write failed"
        /\ f.hc.ID \notin DOMAIN counters
    /\ lkTicks = MaxLockTicks

====
